---- MODULE Spec2Model ----
(***************************************************************************)
(* Tower Clash: Diamonds & Kings -- the game engine (src/src/engine.py)    *)
(* over the entity model (src/src/models.py).                              *)
(*                                                                         *)
(* Every engine function is an operator from an engine state (a record of  *)
(* the GameState and Player fields) to the SET of states it can return:    *)
(* random.shuffle makes the engine nondeterministic, so a function that    *)
(* may reshuffle has one result per permutation.  An action applies one    *)
(* engine function to the current state and commits one of its results.    *)
(***************************************************************************)
EXTENDS Integers, Sequences, FiniteSets, TLC

\* ------------------------------------------------------------------ bounds
\* longest discard pile whose reshuffle is explored in every permutation; a
\* longer pile is explored in its rotations only
MaxShuffle == 4
\* most engine calls explored after start_game (and after the opening turns)
MaxOps == 2
\* most opening turns explored before the calls of a late game
MaxTurns == 2
\* most iterations explored of the hand-discarding loop of the hoarding penalty
MaxLoop == 8
\* longest list of cards handed to the classifier
MaxCards == 5

\* ------------------------------------------------------------ entity model
NumPlayers == 2
Players == 0 .. (NumPlayers - 1)

HEARTS == "H"
SPADES == "S"
CLUBS == "C"
DIAMONDS == "D"
Suit == {HEARTS, SPADES, CLUBS, DIAMONDS}
KING == "K"

Card(r, s) == [rank |-> r, suit |-> s]
\* Optional[Card] = None
NoCard == [rank |-> "-", suit |-> "-"]
\* Optional[int] = None (GameState.winner)
NoWinner == -1

is_diamond(c) == c.suit = DIAMONDS
is_black(c) == c.suit \in {SPADES, CLUBS}
is_heart(c) == c.suit = HEARTS
is_king(c) == c.rank = KING

\* a PublicDiamond built without its owner
PublicDiamond_unowned(c, o) == [card |-> c, owner_id |-> -1]
\* PublicDiamond(card, owner_id)
PublicDiamond(c, o) == [card |-> c, owner_id |-> o]

\* --------------------------------------------------------- list operations
Range(seq) == {seq[i] : i \in 1 .. Len(seq)}

\* Python: x in lst
In(x, seq) == \E i \in 1 .. Len(seq) : seq[i] = x

\* Python: lst.remove(x) for x in lst (removes the first equal element)
RemoveFirst(seq, x) ==
    LET i == CHOOSE k \in 1 .. Len(seq) :
                 seq[k] = x /\ \A j \in 1 .. (k - 1) : seq[j] # x
    IN  SubSeq(seq, 1, i - 1) \o SubSeq(seq, i + 1, Len(seq))

\* Python: [c for c in lst if test(c)]
RECURSIVE Filter(_, _)
Filter(seq, keep) ==
    IF seq = <<>> THEN <<>>
    ELSE (IF Head(seq) \in keep THEN <<Head(seq)>> ELSE <<>>)
             \o Filter(Tail(seq), keep)

\* the multiset of a list, as a function from its elements to their counts
BagOf(seq) == [x \in Range(seq) |-> Cardinality({i \in 1 .. Len(seq) : seq[i] = x})]

\* random.shuffle(lst): every permutation of lst
RECURSIVE Permutations_of(_)
Permutations_of(seq) ==
    IF Len(seq) <= 1 THEN {seq}
    ELSE UNION { { <<seq[i]>> \o p :
                     p \in Permutations_of(SubSeq(seq, 1, i - 1)
                                             \o SubSeq(seq, i + 1, Len(seq))) } :
                 i \in 1 .. Len(seq) }

\* the rotations of a list: it is cut at any place and the parts swapped
Rotations_of(seq) ==
    { SubSeq(seq, i, Len(seq)) \o SubSeq(seq, 1, i - 1) : i \in 1 .. Len(seq) }

Max(a, b) == IF a >= b THEN a ELSE b

\* ------------------------------------------------------------------- state
VARIABLES
    hand,                   \* Player.hand, per player id
    steps,                  \* Player.steps, per player id
    player_public_diamonds, \* Player.public_diamonds, per player id
    draw_pile,              \* GameState.draw_pile (top = end)
    discard_pile,           \* GameState.discard_pile
    public_diamonds,        \* GameState.public_diamonds
    goal_steps,             \* GameState.goal_steps
    tower_floor,            \* GameState.tower_floor
    num_decks,              \* GameState.num_decks
    config,                 \* GameState.config: the rank list of the rules file
    round_index,            \* GameState.round_index
    turn_index,             \* GameState.turn_index
    turns_completed_total,  \* GameState.turns_completed_total
    winner,                 \* GameState.winner
    pc,                     \* "loaded" before start_game, "playing" after, "hung" in a call that never returns
    call,                   \* the last engine call: its name and arguments
    result,                 \* what the last call returned and what it did (draws made, King triggers fired)
    pre,                    \* the engine state the last call started from
    nops                    \* engine calls made since start_game

game == <<hand, steps, player_public_diamonds, draw_pile, discard_pile,
          public_diamonds, goal_steps, tower_floor, num_decks, config,
          round_index, turn_index, turns_completed_total, winner>>
vars == <<game, pc, call, result, pre, nops>>

\* the returned value of a call: None, a Card, an int or a bool
RetNone == [kind |-> "None", card |-> NoCard, val |-> 0, flag |-> FALSE]
RetCard(c) == [kind |-> "Card", card |-> c, val |-> 0, flag |-> FALSE]
RetInt(n) == [kind |-> "int", card |-> NoCard, val |-> n, flag |-> FALSE]
RetBool(b) == [kind |-> "bool", card |-> NoCard, val |-> 0, flag |-> b]
\* Optional[str]: the combo id identify_combo returns, None for "None"
RetStr(x) == IF x = "None" THEN RetNone
             ELSE [kind |-> "str", card |-> NoCard, val |-> 0, flag |-> FALSE, str |-> x]

\* The engine state a call works on: the GameState and Player fields, and the
\* record of the call in progress (ret: value returned by the last function
\* that returned; draws: the result of every draw_card so far, NoCard for
\* None; kings: the Kings whose discard trigger has fired; status: "ok", or
\* "over" when the call left the explored bounds, or "hang" when it entered a
\* loop it cannot leave).
Current ==
    [hand |-> hand, steps |-> steps,
     player_public_diamonds |-> player_public_diamonds,
     draw_pile |-> draw_pile, discard_pile |-> discard_pile,
     public_diamonds |-> public_diamonds,
     goal_steps |-> goal_steps, tower_floor |-> tower_floor,
     num_decks |-> num_decks, config |-> config,
     round_index |-> round_index, turn_index |-> turn_index,
     turns_completed_total |-> turns_completed_total, winner |-> winner,
     ret |-> RetNone, draws |-> <<>>, kings |-> <<>>, status |-> "ok"]

\* GameState.draw_pile_empty / discard_pile_empty / is_round1
draw_pile_empty(s) == Len(s.draw_pile) = 0
discard_pile_empty(s) == Len(s.discard_pile) = 0
is_round1(s) == s.turns_completed_total < NumPlayers

\* Player.count_diamonds_in_hand / get_non_diamond_hand / is_hand_empty_non_diamonds
count_diamonds_in_hand(s, p) ==
    Cardinality({i \in 1 .. Len(s.hand[p]) : is_diamond(s.hand[p][i])})
get_non_diamond_hand(s, p) ==
    Filter(s.hand[p], {c \in Range(s.hand[p]) : ~is_diamond(c)})
is_hand_empty_non_diamonds(s, p) == Len(get_non_diamond_hand(s, p)) = 0

\* ---------------------------------------------------------- deck management
\* reshuffle_discard_into_draw: the discard pile becomes the draw pile, in
\* any order
\* reshuffle_discard_into_draw without "state.discard_pile = []": the two
\* piles stay the same list
reshuffle_keeping_discard(s) ==
    IF discard_pile_empty(s) THEN {s}
    ELSE {[s EXCEPT !.draw_pile = perm, !.discard_pile = perm] :
             perm \in Permutations_of(s.discard_pile)}

shuffle(lst) ==
    IF Len(lst) <= MaxShuffle THEN Permutations_of(lst) ELSE Rotations_of(lst)

reshuffle_discard_into_draw(s) ==
    IF discard_pile_empty(s) THEN {s}
    ELSE {[s EXCEPT !.draw_pile = perm, !.discard_pile = <<>>] :
             perm \in shuffle(s.discard_pile)}

\* draw_card without the early return: None is appended to the hand
draw_card_pop_none(s, p) ==
    IF draw_pile_empty(s)
    THEN [s EXCEPT !.hand[p] = Append(@, NoCard),
                   !.ret = RetNone, !.draws = Append(@, NoCard)]
    ELSE LET card == s.draw_pile[Len(s.draw_pile)]
         IN  [s EXCEPT !.draw_pile = SubSeq(@, 1, Len(@) - 1),
                       !.hand[p] = Append(@, card),
                       !.ret = RetCard(card),
                       !.draws = Append(@, card)]

\* draw_card after its reshuffle: None on an empty draw pile, else pop the
\* top card into the hand
draw_card_pop(s, p) ==
    IF draw_pile_empty(s)
    THEN [s EXCEPT !.ret = RetNone, !.draws = Append(@, NoCard)]
    ELSE LET card == s.draw_pile[Len(s.draw_pile)]
         IN  [s EXCEPT !.draw_pile = SubSeq(@, 1, Len(@) - 1),
                       !.hand[p] = Append(@, card),
                       !.ret = RetCard(card),
                       !.draws = Append(@, card)]

draw_card(s, p) ==
    { draw_card_pop(s1, p) :
        s1 \in (IF draw_pile_empty(s) THEN reshuffle_discard_into_draw(s) ELSE {s}) }

\* n successive draw_card calls for one player
RECURSIVE draw_cards(_, _, _)
draw_cards(s, p, n) ==
    IF n = 0 THEN {s}
    ELSE UNION { draw_cards(s1, p, n - 1) : s1 \in draw_card(s, p) }

\* discard_card: the card leaves the hand if it is there, and is appended to
\* the discard pile in either case
discard_card(s, p, card) ==
    [s EXCEPT !.hand[p] = IF In(card, @) THEN RemoveFirst(@, card) ELSE @,
              !.discard_pile = Append(@, card),
              !.ret = RetNone]

\* king_discard_trigger that takes the two steps of a black King without
\* the floor
king_discard_trigger_unclamped(s, discarder, card) ==
    IF card.rank # KING THEN {[s EXCEPT !.ret = RetNone]}
    ELSE LET k == [s EXCEPT !.kings = Append(@, card)]
         IN  IF card.suit \in {SPADES, CLUBS}
             THEN {[k EXCEPT !.steps[discarder] = @ - 2, !.ret = RetNone]}
             ELSE IF card.suit = HEARTS
             THEN {[k EXCEPT !.steps[discarder] = @ + 2, !.ret = RetNone]}
             ELSE IF card.suit = DIAMONDS
             THEN {[s2 EXCEPT !.ret = RetNone] : s2 \in draw_cards(k, discarder, 2)}
             ELSE {[k EXCEPT !.ret = RetNone]}

\* king_discard_trigger
king_discard_trigger(s, discarder, card) ==
    IF card.rank # KING THEN {[s EXCEPT !.ret = RetNone]}
    ELSE LET k == [s EXCEPT !.kings = Append(@, card)]
         IN  IF card.suit \in {SPADES, CLUBS}
             THEN {[k EXCEPT !.steps[discarder] = Max(s.tower_floor, @ - 2),
                             !.ret = RetNone]}
             ELSE IF card.suit = HEARTS
             THEN {[k EXCEPT !.steps[discarder] = @ + 2, !.ret = RetNone]}
             ELSE IF card.suit = DIAMONDS
             THEN {[s2 EXCEPT !.ret = RetNone] : s2 \in draw_cards(k, discarder, 2)}
             ELSE {[k EXCEPT !.ret = RetNone]}

\* discard_from_hand that forgets hand.remove(card)
discard_from_hand_kept(s, p, card) ==
    king_discard_trigger([s EXCEPT !.discard_pile = Append(@, card)], p, card)

\* discard_from_hand: discard_card's steps, then the King trigger
discard_from_hand(s, p, card) ==
    king_discard_trigger(
        [s EXCEPT !.hand[p] = IF In(card, @) THEN RemoveFirst(@, card) ELSE @,
                  !.discard_pile = Append(@, card)],
        p, card)

\* start_game / deal_each_player
RECURSIVE deal_each_player(_, _, _)
deal_each_player(s, p, num_cards) ==
    IF p = NumPlayers THEN {s}
    ELSE UNION { deal_each_player(s1, p + 1, num_cards) :
                   s1 \in draw_cards(s, p, num_cards) }

start_game(s) ==
    { [s1 EXCEPT !.ret = RetNone] :
        s1 \in deal_each_player([s EXCEPT !.round_index = 1, !.turn_index = 0,
                                          !.turns_completed_total = 0], 0, 6) }

\* ------------------------------------------------------- diamond management
\* end_of_turn_reveal_diamonds: for d in diamonds: hand.remove(d); row.append
RECURSIVE reveal_each(_, _, _)
reveal_each(s, p, diamonds) ==
    IF diamonds = <<>> THEN s
    ELSE reveal_each(
             [s EXCEPT !.hand[p] = RemoveFirst(@, Head(diamonds)),
                       !.public_diamonds = Append(@, PublicDiamond(Head(diamonds), p))],
             p, Tail(diamonds))

\* end_of_turn_reveal_diamonds that stops after the first diamond
end_of_turn_reveal_diamonds_one(s, p) ==
    LET diamonds == Filter(s.hand[p], {c \in Range(s.hand[p]) : is_diamond(c)})
    IN  [reveal_each(s, p, IF diamonds = <<>> THEN <<>> ELSE <<Head(diamonds)>>)
            EXCEPT !.ret = RetNone]

end_of_turn_reveal_diamonds(s, p) ==
    [reveal_each(s, p, Filter(s.hand[p], {c \in Range(s.hand[p]) : is_diamond(c)}))
        EXCEPT !.ret = RetNone]

\* count_player_diamonds_total: hand diamonds + row entries owned
count_player_diamonds_total(s, p) ==
    count_diamonds_in_hand(s, p)
      + Cardinality({i \in 1 .. Len(s.public_diamonds) :
                        s.public_diamonds[i].owner_id = p})

\* GameState.get_public_diamonds_for_player, and the list comprehensions
\* [d for d in state.public_diamonds if d.owner_id == player.id]
get_public_diamonds_for_player(s, p) ==
    Filter(s.public_diamonds, {d \in Range(s.public_diamonds) : d.owner_id = p})

\* for d in owned: state.public_diamonds.remove(d); discard_pile.append(d.card)
RECURSIVE discard_public_each(_, _)
discard_public_each(s, owned) ==
    IF owned = <<>> THEN s
    ELSE discard_public_each(
             [s EXCEPT !.public_diamonds = RemoveFirst(@, Head(owned)),
                       !.discard_pile = Append(@, Head(owned).card)],
             Tail(owned))

\* discard_six_player_diamonds, first loop: over a copy of the hand, diamonds
\* go to the discard pile while count < 6; yields the state and the count
RECURSIVE discard_hand_diamonds(_, _, _, _)
discard_hand_diamonds(s, p, copy, count) ==
    IF copy = <<>> THEN [state |-> s, count |-> count]
    ELSE IF is_diamond(Head(copy)) /\ count < 6
         THEN discard_hand_diamonds(
                  [s EXCEPT !.hand[p] = RemoveFirst(@, Head(copy)),
                            !.discard_pile = Append(@, Head(copy))],
                  p, Tail(copy), count + 1)
         ELSE discard_hand_diamonds(s, p, Tail(copy), count)

\* discard_six_player_diamonds that takes the row's diamonds before the hand's
discard_six_row_first(s, p) ==
    LET owned == get_public_diamonds_for_player(s, p)
        n == IF Len(owned) < 6 THEN Len(owned) ELSE 6
        r == discard_public_each(s, SubSeq(owned, 1, n))
        h == discard_hand_diamonds(r, p, r.hand[p], n)
    IN  [h.state EXCEPT !.ret = RetNone]

discard_six_player_diamonds(s, p) ==
    LET h == discard_hand_diamonds(s, p, s.hand[p], 0)
        owned == IF h.count < 6
                 THEN get_public_diamonds_for_player(h.state, p)
                 ELSE <<>>
        n == IF Len(owned) < 6 - h.count THEN Len(owned) ELSE 6 - h.count
    IN  [discard_public_each(h.state, SubSeq(owned, 1, n)) EXCEPT !.ret = RetNone]

\* --------------------------------------------- combo detection & resolution
\* is_four_kings that compares the suits with three suits only
is_four_kings_three_suits(cards) ==
    IF Len(cards) # 4 THEN FALSE
    ELSE (\A i \in 1 .. Len(cards) : cards[i].rank = KING)
         /\ {cards[i].suit : i \in 1 .. Len(cards)} = {HEARTS, SPADES, CLUBS}

is_four_kings(cards) ==
    IF Len(cards) # 4 THEN FALSE
    ELSE (\A i \in 1 .. Len(cards) : cards[i].rank = KING)
         /\ {cards[i].suit : i \in 1 .. Len(cards)} = {HEARTS, SPADES, CLUBS, DIAMONDS}

all_same_rank(cards) ==
    IF cards = <<>> THEN FALSE
    ELSE \A i \in 1 .. Len(cards) : cards[i].rank = cards[1].rank

\* identify_combo whose two-card branch takes a heart without a black card
\* for heart_plus_black
identify_combo_lenient(cards) ==
    IF ~all_same_rank(cards) THEN "None"
    ELSE LET num_cards == Len(cards)
             suits == {cards[i].suit : i \in 1 .. Len(cards)}
             has_heart == HEARTS \in suits
             has_diamond == DIAMONDS \in suits
             has_black == \E x \in suits : x \in {SPADES, CLUBS}
         IN  IF num_cards = 4 THEN "four_of_kind_any_rank"
             ELSE IF num_cards = 3
                  THEN (IF has_diamond THEN "three_kind_including_diamond"
                                       ELSE "three_of_kind_basic")
             ELSE IF num_cards = 2
                  THEN (IF has_heart /\ has_diamond THEN "heart_plus_diamond"
                        ELSE IF has_diamond /\ has_black THEN "diamond_plus_black"
                        ELSE IF has_heart THEN "heart_plus_black"
                        ELSE IF \A x \in suits : x \in {SPADES, CLUBS} THEN "two_blacks"
                        ELSE "None")
             ELSE "None"

\* identify_combo that takes any four cards or more of one rank for four of
\* a kind
identify_combo_four_or_more(cards) ==
    IF ~all_same_rank(cards) THEN "None"
    ELSE LET num_cards == Len(cards)
             suits == {cards[i].suit : i \in 1 .. Len(cards)}
             has_heart == HEARTS \in suits
             has_diamond == DIAMONDS \in suits
             has_black == \E x \in suits : x \in {SPADES, CLUBS}
         IN  IF num_cards >= 4 THEN "four_of_kind_any_rank"
             ELSE IF num_cards = 3
                  THEN (IF has_diamond THEN "three_kind_including_diamond"
                                       ELSE "three_of_kind_basic")
             ELSE IF num_cards = 2
                  THEN (IF has_heart /\ has_diamond THEN "heart_plus_diamond"
                        ELSE IF has_diamond /\ has_black THEN "diamond_plus_black"
                        ELSE IF has_heart /\ has_black THEN "heart_plus_black"
                        ELSE IF \A x \in suits : x \in {SPADES, CLUBS} THEN "two_blacks"
                        ELSE "None")
             ELSE "None"

\* identify_combo whose three-card branch knows the heart with both blacks
identify_combo_both_blacks(cards) ==
    IF ~all_same_rank(cards) THEN "None"
    ELSE LET num_cards == Len(cards)
             suits == {cards[i].suit : i \in 1 .. Len(cards)}
             has_heart == HEARTS \in suits
             has_diamond == DIAMONDS \in suits
             has_black == \E x \in suits : x \in {SPADES, CLUBS}
         IN  IF num_cards = 4 THEN "four_of_kind_any_rank"
             ELSE IF num_cards = 3
                  THEN (IF has_diamond THEN "three_kind_including_diamond"
                        ELSE IF suits = {HEARTS, SPADES, CLUBS}
                        THEN "heart_plus_both_blacks"
                        ELSE "three_of_kind_basic")
             ELSE IF num_cards = 2
                  THEN (IF has_heart /\ has_diamond THEN "heart_plus_diamond"
                        ELSE IF has_diamond /\ has_black THEN "diamond_plus_black"
                        ELSE IF has_heart /\ has_black THEN "heart_plus_black"
                        ELSE IF \A x \in suits : x \in {SPADES, CLUBS} THEN "two_blacks"
                        ELSE "None")
             ELSE "None"

\* identify_combo: the combo id, or "None"
identify_combo(cards) ==
    IF ~all_same_rank(cards) THEN "None"
    ELSE IF cards = <<>> THEN "None"
    ELSE LET num_cards == Len(cards)
             suits == {cards[i].suit : i \in 1 .. Len(cards)}
             has_heart == HEARTS \in suits
             has_diamond == DIAMONDS \in suits
             has_black == \E x \in suits : x \in {SPADES, CLUBS}
         IN  IF num_cards = 4 THEN "four_of_kind_any_rank"
             ELSE IF num_cards = 3
                  THEN (IF has_diamond THEN "three_kind_including_diamond"
                                       ELSE "three_of_kind_basic")
             ELSE IF num_cards = 2
                  THEN (IF has_heart /\ has_diamond THEN "heart_plus_diamond"
                        ELSE IF has_diamond /\ has_black THEN "diamond_plus_black"
                        ELSE IF has_heart /\ has_black THEN "heart_plus_black"
                        ELSE IF \A x \in suits : x \in {SPADES, CLUBS} THEN "two_blacks"
                        ELSE "None")
             ELSE "None"

\* get_combo_steps with the payouts of two_blacks and heart_plus_black swapped
get_combo_steps_swapped(combo_id) ==
    CASE combo_id = "two_blacks" -> 2
      [] combo_id = "heart_plus_black" -> 1
      [] combo_id = "heart_plus_both_blacks" -> 3
      [] combo_id = "heart_plus_diamond" -> 1
      [] combo_id = "diamond_plus_black" -> 0
      [] combo_id = "three_kind_including_diamond" -> 1
      [] combo_id = "three_of_kind_basic" -> 1
      [] combo_id = "four_of_kind_any_rank" -> 3
      [] OTHER -> 0

\* get_combo_steps / get_combo_draw / get_combo_discard: the effect tables
get_combo_steps(combo_id) ==
    CASE combo_id = "two_blacks" -> 1
      [] combo_id = "heart_plus_black" -> 2
      [] combo_id = "heart_plus_both_blacks" -> 3
      [] combo_id = "heart_plus_diamond" -> 1
      [] combo_id = "diamond_plus_black" -> 0
      [] combo_id = "three_kind_including_diamond" -> 1
      [] combo_id = "three_of_kind_basic" -> 1
      [] combo_id = "four_of_kind_any_rank" -> 3
      [] OTHER -> 0

\* get_combo_draw with a draw for heart_plus_black too
get_combo_draw_every_heart(combo_id) ==
    CASE combo_id = "heart_plus_diamond" -> 1
      [] combo_id = "heart_plus_black" -> 1
      [] combo_id = "diamond_plus_black" -> 1
      [] combo_id = "three_kind_including_diamond" -> 1
      [] combo_id = "four_of_kind_any_rank" -> 1
      [] OTHER -> 0

get_combo_draw(combo_id) ==
    CASE combo_id = "heart_plus_diamond" -> 1
      [] combo_id = "diamond_plus_black" -> 1
      [] combo_id = "three_kind_including_diamond" -> 1
      [] combo_id = "four_of_kind_any_rank" -> 1
      [] OTHER -> 0

get_combo_discard(combo_id) ==
    CASE combo_id = "diamond_plus_black" -> 1
      [] combo_id = "three_kind_including_diamond" -> 1
      [] OTHER -> 0

\* for card in combo_cards: discard_card(state, active, card)
RECURSIVE discard_combo_cards(_, _, _)
discard_combo_cards(s, p, cards) ==
    IF cards = <<>> THEN s
    ELSE discard_combo_cards(discard_card(s, p, Head(cards)), p, Tail(cards))

\* for _ in range(discard_count): if active.hand: discard_from_hand(hand[0])
RECURSIVE discard_first_cards(_, _, _)
discard_first_cards(s, p, n) ==
    IF n = 0 THEN {s}
    ELSE IF s.hand[p] = <<>> THEN discard_first_cards(s, p, n - 1)
    ELSE UNION { discard_first_cards(s1, p, n - 1) :
                   s1 \in discard_from_hand(s, p, s.hand[p][1]) }

resolve_combo(s, active, combo_cards) ==
    IF ~all_same_rank(combo_cards) THEN {[s EXCEPT !.ret = RetInt(0)]}
    ELSE
    LET rank == combo_cards[1].rank IN
    IF rank = KING /\ is_four_kings(combo_cards)
    THEN { [discard_combo_cards(s2, active, combo_cards) EXCEPT !.ret = RetInt(6)] :
             s2 \in draw_cards([s EXCEPT !.steps[active] = @ + 6], active, 2) }
    ELSE
    LET combo_id == identify_combo(combo_cards) IN
    IF combo_id = "None" THEN {[s EXCEPT !.ret = RetInt(0)]}
    ELSE
    LET table_steps == get_combo_steps(combo_id)
        draw_count == get_combo_draw(combo_id)
        discard_count == get_combo_discard(combo_id)
        steps_gain == IF rank = KING /\ table_steps > 0
                      THEN table_steps * 2 ELSE table_steps
        gained == [s EXCEPT !.steps[active] = @ + steps_gain]
        discarded == IF discard_count > 0 /\ Len(gained.hand[active]) > 0
                     THEN discard_first_cards(gained, active, discard_count)
                     ELSE {gained}
        drawn == UNION { draw_cards(s1, active, draw_count) : s1 \in discarded }
    IN  { [discard_combo_cards(s2, active, combo_cards) EXCEPT !.ret = RetInt(steps_gain)] :
            s2 \in drawn }

\* ---------------------------------------------------------- diamond actions
\* Optional[int] = None for the two index arguments of diamond_command
NoIdx == -1

\* the state of the hand-discarding loop that decides how it continues
LoopKey(s) == <<s.hand, s.steps, s.draw_pile, s.discard_pile>>

\* apply_hoarding_penalty, first loop:
\*   while player.hand: discard_from_hand(state, player, player.hand[0])
\* A state of the loop that comes back has the loop run forever ("hang").
RECURSIVE discard_whole_hand(_, _, _, _)
discard_whole_hand(s, p, fuel, seen) ==
    IF s.hand[p] = <<>> THEN {s}
    ELSE IF LoopKey(s) \in seen THEN {[s EXCEPT !.status = "hang"]}
    ELSE IF fuel = 0 THEN {[s EXCEPT !.status = "over"]}
    ELSE UNION { discard_whole_hand(s1, p, fuel - 1, seen \cup {LoopKey(s)}) :
                   s1 \in discard_from_hand(s, p, s.hand[p][1]) }

\* apply_hoarding_penalty that takes the step without the floor
apply_hoarding_penalty_unclamped(s, p) ==
    UNION { IF s1.status # "ok" THEN {s1}
            ELSE LET s2 == discard_public_each(s1, get_public_diamonds_for_player(s1, p))
                     s3 == [s2 EXCEPT !.steps[p] = @ - 1]
                 IN  {[s4 EXCEPT !.ret = RetNone] : s4 \in draw_cards(s3, p, 6)} :
            s1 \in discard_whole_hand(s, p, MaxLoop, {}) }

\* apply_hoarding_penalty that leaves the player's public diamonds in the row
apply_hoarding_penalty_keeps_row(s, p) ==
    UNION { IF s1.status # "ok" THEN {s1}
            ELSE LET s3 == [s1 EXCEPT !.steps[p] = Max(s1.tower_floor, @ - 1)]
                 IN  {[s4 EXCEPT !.ret = RetNone] : s4 \in draw_cards(s3, p, 6)} :
            s1 \in discard_whole_hand(s, p, MaxLoop, {}) }

\* apply_hoarding_penalty: the hand, then the row, -1 step, draw 6
apply_hoarding_penalty(s, p) ==
    UNION { IF s1.status # "ok" THEN {s1}
            ELSE LET s2 == discard_public_each(s1, get_public_diamonds_for_player(s1, p))
                     s3 == [s2 EXCEPT !.steps[p] = Max(s2.tower_floor, @ - 1)]
                 IN  {[s4 EXCEPT !.ret = RetNone] : s4 \in draw_cards(s3, p, 6)} :
            s1 \in discard_whole_hand(s, p, MaxLoop, {}) }

\* diamond_command's effect without the round check: a discarded diamond
\* always brings the Hoarding Penalty
command_effect_always_hoards(s, target, discarded) ==
    IF discarded.suit \in {SPADES, CLUBS}
    THEN {[s EXCEPT !.steps[target] = Max(s.tower_floor, @ - 1)]}
    ELSE IF discarded.suit = HEARTS
    THEN {[s EXCEPT !.steps[target] = @ + 1]}
    ELSE IF discarded.suit = DIAMONDS
    THEN apply_hoarding_penalty(s, target)
    ELSE {s}

\* diamond_command, after the target's forced discard: the effect of the
\* discarded card's suit on the target
command_effect(s, target, discarded) ==
    IF discarded.suit \in {SPADES, CLUBS}
    THEN {[s EXCEPT !.steps[target] = Max(s.tower_floor, @ - 1)]}
    ELSE IF discarded.suit = HEARTS
    THEN {[s EXCEPT !.steps[target] = @ + 1]}
    ELSE IF discarded.suit = DIAMONDS
    THEN (IF is_round1(s) THEN draw_card(s, target)
                          ELSE apply_hoarding_penalty(s, target))
    ELSE {s}

\* the payment of a diamond from the hand through discard_from_hand, so
\* that a paid King of diamonds fires its trigger on the active player
command_pay_triggering(s, active, diamond_to_pay_idx) ==
    IF count_diamonds_in_hand(s, active) > 0
    THEN LET diamond ==
                 IF diamond_to_pay_idx = NoIdx
                 THEN Filter(s.hand[active],
                             {c \in Range(s.hand[active]) : is_diamond(c)})[1]
                 ELSE s.hand[active][diamond_to_pay_idx + 1]
         IN  CHOOSE s1 \in discard_from_hand(s, active, diamond) : TRUE
    ELSE s

\* diamond_command, the payment of one diamond by the active player
command_pay(s, active, diamond_to_pay_idx) ==
    IF count_diamonds_in_hand(s, active) > 0
    THEN LET diamond ==
                 IF diamond_to_pay_idx = NoIdx
                 THEN Filter(s.hand[active],
                             {c \in Range(s.hand[active]) : is_diamond(c)})[1]
                 ELSE s.hand[active][diamond_to_pay_idx + 1]
         IN  discard_card(s, active, diamond)
    ELSE LET diamond_to_pay ==
                 IF diamond_to_pay_idx = NoIdx
                 THEN s.player_public_diamonds[active][1]
                 ELSE s.player_public_diamonds[active][diamond_to_pay_idx + 1]
         IN  [s EXCEPT !.public_diamonds = RemoveFirst(@, diamond_to_pay),
                       !.discard_pile = Append(@, diamond_to_pay.card)]

\* diamond_command whose diamond check guards the payment only: without a
\* diamond nothing is paid and the target discards all the same
diamond_command_unpaid(s, active, target, diamond_to_pay_idx, card_to_discard_idx) ==
    LET paid == IF count_diamonds_in_hand(s, active) > 0
                     \/ Len(s.player_public_diamonds[active]) > 0
                THEN command_pay(s, active, diamond_to_pay_idx)
                ELSE s
    IN
    IF Len(paid.hand[target]) = 0 THEN {[paid EXCEPT !.ret = RetNone]}
    ELSE
    LET discarded == IF card_to_discard_idx = NoIdx
                     THEN paid.hand[target][1]
                     ELSE paid.hand[target][card_to_discard_idx + 1]
    IN  UNION { { IF s2.status = "ok" THEN [s2 EXCEPT !.ret = RetCard(discarded)] ELSE s2 :
                    s2 \in command_effect(s1, target, discarded) } :
                s1 \in discard_from_hand(paid, target, discarded) }

\* diamond_command that always takes the target's first card
diamond_command_first_card(s, active, target, diamond_to_pay_idx, card_to_discard_idx) ==
    IF ~(count_diamonds_in_hand(s, active) > 0
           \/ Len(s.player_public_diamonds[active]) > 0)
    THEN {[s EXCEPT !.ret = RetNone]}
    ELSE
    LET paid == command_pay(s, active, diamond_to_pay_idx) IN
    IF Len(paid.hand[target]) = 0 THEN {[paid EXCEPT !.ret = RetNone]}
    ELSE
    LET discarded == paid.hand[target][1]
    IN  UNION { { IF s2.status = "ok" THEN [s2 EXCEPT !.ret = RetCard(discarded)] ELSE s2 :
                    s2 \in command_effect(s1, target, discarded) } :
                s1 \in discard_from_hand(paid, target, discarded) }

diamond_command(s, active, target, diamond_to_pay_idx, card_to_discard_idx) ==
    IF ~(count_diamonds_in_hand(s, active) > 0
           \/ Len(s.player_public_diamonds[active]) > 0)
    THEN {[s EXCEPT !.ret = RetNone]}
    ELSE
    LET paid == command_pay(s, active, diamond_to_pay_idx) IN
    IF Len(paid.hand[target]) = 0 THEN {[paid EXCEPT !.ret = RetNone]}
    ELSE
    LET discarded == IF card_to_discard_idx = NoIdx
                     THEN paid.hand[target][1]
                     ELSE paid.hand[target][card_to_discard_idx + 1]
    IN  UNION { { IF s2.status = "ok" THEN [s2 EXCEPT !.ret = RetCard(discarded)] ELSE s2 :
                    s2 \in command_effect(s1, target, discarded) } :
                s1 \in discard_from_hand(paid, target, discarded) }

\* index in the row of the first diamond a player owns (0 if none)
FirstOwned(s, p) ==
    IF \E i \in 1 .. Len(s.public_diamonds) : s.public_diamonds[i].owner_id = p
    THEN CHOOSE i \in 1 .. Len(s.public_diamonds) :
             /\ s.public_diamonds[i].owner_id = p
             /\ \A j \in 1 .. (i - 1) : s.public_diamonds[j].owner_id # p
    ELSE 0

\* diamond_swap that hands over the active player's diamond even when the
\* target has none to give back
diamond_swap_one_sided(s, active, target) ==
    LET i1 == FirstOwned(s, active)
        i2 == FirstOwned(s, target)
    IN  IF i1 # 0
        THEN LET s1 == [s EXCEPT !.public_diamonds[i1].owner_id = target]
             IN  IF i2 # 0
                 THEN [s1 EXCEPT !.public_diamonds[i2].owner_id = active, !.ret = RetNone]
                 ELSE [s1 EXCEPT !.ret = RetNone]
        ELSE [s EXCEPT !.ret = RetNone]

\* index in the row of the last diamond a player owns (0 if none)
LastOwned(s, p) ==
    IF \E i \in 1 .. Len(s.public_diamonds) : s.public_diamonds[i].owner_id = p
    THEN CHOOSE i \in 1 .. Len(s.public_diamonds) :
             /\ s.public_diamonds[i].owner_id = p
             /\ \A j \in (i + 1) .. Len(s.public_diamonds) :
                    s.public_diamonds[j].owner_id # p
    ELSE 0

\* diamond_swap that gives away the active player's last diamond of the row
diamond_swap_last(s, active, target) ==
    LET i1 == LastOwned(s, active)
        i2 == FirstOwned(s, target)
    IN  IF i1 # 0 /\ i2 # 0
        THEN LET s1 == [s EXCEPT !.public_diamonds[i1].owner_id = target]
             IN  [s1 EXCEPT !.public_diamonds[i2].owner_id = active, !.ret = RetNone]
        ELSE [s EXCEPT !.ret = RetNone]

\* diamond_swap: d1.owner_id = target.id, then d2.owner_id = active.id
diamond_swap(s, active, target) ==
    LET i1 == FirstOwned(s, active)
        i2 == FirstOwned(s, target)
    IN  IF i1 # 0 /\ i2 # 0
        THEN LET s1 == [s EXCEPT !.public_diamonds[i1].owner_id = target]
             IN  [s1 EXCEPT !.public_diamonds[i2].owner_id = active, !.ret = RetNone]
        ELSE [s EXCEPT !.ret = RetNone]

\* jackpot_six_diamonds that pays out from five diamonds on
jackpot_five_diamonds(s, p) ==
    IF count_player_diamonds_total(s, p) < 5 THEN {[s EXCEPT !.ret = RetBool(FALSE)]}
    ELSE LET s1 == discard_six_player_diamonds([s EXCEPT !.steps[p] = @ + 6], p)
             non_diamond_count == Len(get_non_diamond_hand(s1, p))
         IN  { [s2 EXCEPT !.ret = RetBool(TRUE)] :
                 s2 \in draw_cards(s1, p, IF non_diamond_count < 6
                                          THEN 6 - non_diamond_count ELSE 0) }

\* jackpot_six_diamonds
jackpot_six_diamonds(s, p) ==
    IF count_player_diamonds_total(s, p) < 6 THEN {[s EXCEPT !.ret = RetBool(FALSE)]}
    ELSE LET s1 == discard_six_player_diamonds([s EXCEPT !.steps[p] = @ + 6], p)
             non_diamond_count == Len(get_non_diamond_hand(s1, p))
         IN  { [s2 EXCEPT !.ret = RetBool(TRUE)] :
                 s2 \in draw_cards(s1, p, IF non_diamond_count < 6
                                          THEN 6 - non_diamond_count ELSE 0) }

\* ---------------------------------------------------------------- penalties
\* apply_empty_hand_penalty_if_needed that asks for a hand without any card
apply_empty_hand_penalty_if_no_card(s, p) ==
    IF s.hand[p] = <<>>
    THEN { [s1 EXCEPT !.ret = RetNone] :
             s1 \in draw_cards([s EXCEPT !.steps[p] = Max(s.tower_floor, @ - 1)], p, 6) }
    ELSE {[s EXCEPT !.ret = RetNone]}

apply_empty_hand_penalty_if_needed(s, p) ==
    IF is_hand_empty_non_diamonds(s, p)
    THEN { [s1 EXCEPT !.ret = RetNone] :
             s1 \in draw_cards([s EXCEPT !.steps[p] = Max(s.tower_floor, @ - 1)], p, 6) }
    ELSE {[s EXCEPT !.ret = RetNone]}

\* ----------------------------------------------------------- turn management
\* GameState.current_player: the id of players[turn_index % len(players)]
current_player(s) == s.turn_index % NumPlayers

\* execute_turn whose victory check also clears the winner when the player
\* is below the goal
execute_turn_rechecking(s, p) ==
    UNION { { LET s3 == end_of_turn_reveal_diamonds(s2, p)
                  s4 == [s3 EXCEPT !.turns_completed_total = @ + 1]
                  s5 == IF s4.turns_completed_total % NumPlayers = 0
                        THEN [s4 EXCEPT !.round_index = @ + 1] ELSE s4
              IN  [s5 EXCEPT !.winner = IF s5.steps[p] >= s5.goal_steps
                                        THEN p ELSE NoWinner,
                             !.ret = RetNone] :
              s2 \in apply_empty_hand_penalty_if_needed(s1, p) } :
            s1 \in draw_card(s, p) }

\* execute_turn that asks for more steps than the goal
execute_turn_strict(s, p) ==
    UNION { { LET s3 == end_of_turn_reveal_diamonds(s2, p)
                  s4 == [s3 EXCEPT !.turns_completed_total = @ + 1]
                  s5 == IF s4.turns_completed_total % NumPlayers = 0
                        THEN [s4 EXCEPT !.round_index = @ + 1] ELSE s4
              IN  IF s5.steps[p] > s5.goal_steps
                  THEN [s5 EXCEPT !.winner = p, !.ret = RetNone]
                  ELSE [s5 EXCEPT !.ret = RetNone] :
              s2 \in apply_empty_hand_penalty_if_needed(s1, p) } :
            s1 \in draw_card(s, p) }

\* execute_turn that reveals the diamonds before the empty-hand penalty
execute_turn_reveal_first(s, p) ==
    UNION { { LET s4 == [s3 EXCEPT !.turns_completed_total = @ + 1]
                  s5 == IF s4.turns_completed_total % NumPlayers = 0
                        THEN [s4 EXCEPT !.round_index = @ + 1] ELSE s4
              IN  IF s5.steps[p] >= s5.goal_steps
                  THEN [s5 EXCEPT !.winner = p, !.ret = RetNone]
                  ELSE [s5 EXCEPT !.ret = RetNone] :
              s3 \in apply_empty_hand_penalty_if_needed(
                         end_of_turn_reveal_diamonds(s1, p), p) } :
            s1 \in draw_card(s, p) }

execute_turn(s, p) ==
    UNION { { LET s3 == end_of_turn_reveal_diamonds(s2, p)
                  s4 == [s3 EXCEPT !.turns_completed_total = @ + 1]
                  s5 == IF s4.turns_completed_total % NumPlayers = 0
                        THEN [s4 EXCEPT !.round_index = @ + 1] ELSE s4
              IN  IF s5.steps[p] >= s5.goal_steps
                  THEN [s5 EXCEPT !.winner = p, !.ret = RetNone]
                  ELSE [s5 EXCEPT !.ret = RetNone] :
              s2 \in apply_empty_hand_penalty_if_needed(s1, p) } :
            s1 \in draw_card(s, p) }

\* check_victory: the first player at or over the goal, or NoWinner
check_victory(s) ==
    IF \E p \in Players : s.steps[p] >= s.goal_steps
    THEN CHOOSE p \in Players :
             /\ s.steps[p] >= s.goal_steps
             /\ \A q \in Players : q < p => s.steps[q] < s.goal_steps
    ELSE NoWinner

\* ------------------------------------------------------------ construction
Reverse(seq) == [i \in 1 .. Len(seq) |-> seq[Len(seq) + 1 - i]]

\* GameLoader._create_deck for a rules file with the given rank list (the
\* suits are the four of the rules file, in its order)
RECURSIVE create_deck(_, _)
create_deck(ranks, copies) ==
    LET suits == <<HEARTS, SPADES, CLUBS, DIAMONDS>>
        one == [i \in 1 .. (Len(ranks) * 4) |->
                   Card(ranks[((i - 1) \div 4) + 1], suits[((i - 1) % 4) + 1])]
    IN  IF copies = 0 THEN <<>> ELSE one \o create_deck(ranks, copies - 1)

\* The shuffled decks the games start from, each written in the order its
\* cards will be drawn (start_game deals the first six to player 0 and the
\* next six to player 1), with the rank list and deck count of its rules.
LoadCases ==
    { [ranks |-> <<"5", "K">>, num_decks |-> 1,
       order |-> << Card("K", "S"), Card("K", "D"), Card("K", "H"),
                    Card("K", "C"), Card("5", "S"), Card("5", "C"),
                    Card("5", "D"), Card("5", "H") >>],
      [ranks |-> <<"5", "K">>, num_decks |-> 1,
       order |-> << Card("5", "D"), Card("5", "S"), Card("K", "H"),
                    Card("5", "H"), Card("K", "C"), Card("5", "C"),
                    Card("K", "D"), Card("K", "S") >>],
      [ranks |-> <<"5">>, num_decks |-> 2,
       order |-> << Card("5", "H"), Card("5", "D"), Card("5", "H"),
                    Card("5", "S"), Card("5", "D"), Card("5", "C"),
                    Card("5", "S"), Card("5", "C") >>],
      [ranks |-> <<"5", "7", "9", "K">>, num_decks |-> 1,
       order |-> << Card("5", "D"), Card("5", "S"), Card("K", "S"),
                    Card("9", "C"), Card("K", "H"), Card("7", "C"),
                    Card("K", "D"), Card("7", "S"), Card("5", "H"),
                    Card("9", "H"), Card("K", "C"), Card("9", "S"),
                    Card("7", "D"), Card("7", "H"), Card("9", "D"),
                    Card("5", "C") >>] }

\* the arguments of a call, in one shape for every engine function
Call(op, player, target, cards, pay, disc) ==
    [op |-> op, player |-> player, target |-> target, cards |-> cards,
     diamond_to_pay_idx |-> pay, card_to_discard_idx |-> disc]

Outcome(r) == [ret |-> r.ret, draws |-> r.draws, kings |-> r.kings]

\* GameLoader.load_game_state for a rules file with the rank list of c and
\* the given victory goal, num_decks of c, and the shuffle that left the deck
\* in the given draw order: players without cards at 0 steps, the shuffled
\* deck as the draw pile, the dataclass defaults elsewhere
Loaded(c, order, goal) ==
    /\ hand = [p \in Players |-> <<>>]
    /\ steps = [p \in Players |-> 0]
    /\ player_public_diamonds = [p \in Players |-> <<>>]
    /\ BagOf(order) = BagOf(create_deck(c.ranks, c.num_decks))
    /\ num_decks = c.num_decks
    /\ config = [ranks |-> c.ranks]
    /\ draw_pile = Reverse(order)
    /\ discard_pile = <<>>
    /\ public_diamonds = <<>>
    /\ goal_steps = goal
    /\ tower_floor = 0
    /\ round_index = 1
    /\ turn_index = 0
    /\ turns_completed_total = 0
    /\ winner = NoWinner
    /\ pc = "loaded"
    /\ call = Call("load_game_state", 0, 0, <<>>, NoIdx, NoIdx)
    /\ result = [ret |-> RetNone, draws |-> <<>>, kings |-> <<>>]
    /\ pre = [hand |-> hand, steps |-> steps,
              player_public_diamonds |-> player_public_diamonds,
              draw_pile |-> <<>>, discard_pile |-> discard_pile,
              public_diamonds |-> public_diamonds,
              goal_steps |-> goal_steps, tower_floor |-> tower_floor,
              num_decks |-> num_decks, config |-> config,
              round_index |-> round_index, turn_index |-> turn_index,
              turns_completed_total |-> turns_completed_total, winner |-> winner,
              ret |-> RetNone, draws |-> <<>>, kings |-> <<>>, status |-> "ok"]
    /\ nops = 0

\* a game of the rules with goal 20
Init == \E c \in LoadCases : Loaded(c, c.order, 20)

\* a call returns r (or, with status "hang", never returns and leaves the
\* state as r): the fields of r become the state
Commit(r, c) ==
    /\ r.status # "over"
    /\ hand' = r.hand
    /\ steps' = r.steps
    /\ player_public_diamonds' = r.player_public_diamonds
    /\ draw_pile' = r.draw_pile
    /\ discard_pile' = r.discard_pile
    /\ public_diamonds' = r.public_diamonds
    /\ goal_steps' = r.goal_steps
    /\ tower_floor' = r.tower_floor
    /\ num_decks' = r.num_decks
    /\ config' = r.config
    /\ round_index' = r.round_index
    /\ turn_index' = r.turn_index
    /\ turns_completed_total' = r.turns_completed_total
    /\ winner' = r.winner
    /\ pc' = IF r.status = "hang" THEN "hung" ELSE "playing"
    /\ call' = c
    /\ result' = Outcome(r)
    /\ pre' = Current

\* ------------------------------------------------------------------ actions
StartGame ==
    /\ pc = "loaded"
    /\ \E r \in start_game(Current) :
           Commit(r, Call("start_game", 0, 0, <<>>, NoIdx, NoIdx))
    /\ nops' = 0

\* an engine call can be made: the game is started, no call hangs
Started == pc = "playing"
Ready == Started /\ nops < MaxOps

\* the lists of cards a caller can pick from a hand: its cards at
\* increasing positions
RECURSIVE SubLists(_)
SubLists(seq) ==
    IF seq = <<>> THEN {<<>>}
    ELSE LET rest == SubLists(Tail(seq))
         IN  rest \cup { <<Head(seq)>> \o x : x \in rest }

DrawCard ==
    /\ Ready
    /\ \E p \in Players : \E r \in draw_card(Current, p) :
           Commit(r, Call("draw_card", p, p, <<>>, NoIdx, NoIdx))
    /\ nops' = nops + 1

DiscardFromHand ==
    /\ Ready
    /\ \E p \in Players : \E i \in 1 .. Len(hand[p]) :
         \E r \in discard_from_hand(Current, p, hand[p][i]) :
           Commit(r, Call("discard_from_hand", p, p, <<hand[p][i]>>, NoIdx, NoIdx))
    /\ nops' = nops + 1

DiscardCard ==
    /\ Ready
    /\ \E p \in Players : \E i \in 1 .. Len(hand[p]) :
           Commit(discard_card(Current, p, hand[p][i]),
                  Call("discard_card", p, p, <<hand[p][i]>>, NoIdx, NoIdx))
    /\ nops' = nops + 1

ResolveCombo ==
    /\ Ready
    /\ \E p \in Players : \E cards \in SubLists(hand[p]) :
         \E r \in resolve_combo(Current, p, cards) :
           Commit(r, Call("resolve_combo", p, p, cards, NoIdx, NoIdx))
    /\ nops' = nops + 1

\* the indices a front end offers for the diamond to pay: none, or the
\* position of a diamond in the active player's hand
PayChoices(p) == {NoIdx} \cup {i - 1 : i \in {j \in 1 .. Len(hand[p]) : is_diamond(hand[p][j])}}

\* the indices a front end offers for the target's discard: none, or a
\* position in the target's hand
DiscardChoices(p) == {NoIdx} \cup {i - 1 : i \in 1 .. Len(hand[p])}

DiamondCommand ==
    /\ Ready
    /\ \E active \in Players : \E target \in Players \ {active} :
         \E pay \in PayChoices(active) : \E disc \in DiscardChoices(target) :
           \E r \in diamond_command(Current, active, target, pay, disc) :
             Commit(r, Call("diamond_command", active, target, <<>>, pay, disc))
    /\ nops' = nops + 1

DiamondSwap ==
    /\ Ready
    /\ \E active \in Players : \E target \in Players \ {active} :
           Commit(diamond_swap(Current, active, target),
                  Call("diamond_swap", active, target, <<>>, NoIdx, NoIdx))
    /\ nops' = nops + 1

Jackpot ==
    /\ Ready
    /\ \E p \in Players : \E r \in jackpot_six_diamonds(Current, p) :
           Commit(r, Call("jackpot_six_diamonds", p, p, <<>>, NoIdx, NoIdx))
    /\ nops' = nops + 1

RevealDiamonds ==
    /\ Ready
    /\ \E p \in Players :
           Commit(end_of_turn_reveal_diamonds(Current, p),
                  Call("end_of_turn_reveal_diamonds", p, p, <<>>, NoIdx, NoIdx))
    /\ nops' = nops + 1

EmptyHandPenalty ==
    /\ Ready
    /\ \E p \in Players : \E r \in apply_empty_hand_penalty_if_needed(Current, p) :
           Commit(r, Call("apply_empty_hand_penalty_if_needed", p, p, <<>>, NoIdx, NoIdx))
    /\ nops' = nops + 1

ExecuteTurn ==
    /\ Ready
    /\ \E p \in Players : \E r \in execute_turn(Current, p) :
           Commit(r, Call("execute_turn", p, p, <<>>, NoIdx, NoIdx))
    /\ nops' = nops + 1

Next ==
    \/ StartGame
    \/ DrawCard
    \/ DiscardFromHand
    \/ DiscardCard
    \/ ResolveCombo
    \/ DiamondCommand
    \/ DiamondSwap
    \/ Jackpot
    \/ RevealDiamonds
    \/ EmptyHandPenalty
    \/ ExecuteTurn

Spec == Init /\ [][Next]_vars

\* A caller that names a card the player does not hold: discard_from_hand
\* accepts any Card.
DiscardAbsentCard ==
    /\ Ready
    /\ \E p \in Players : \E card \in Range(create_deck(config.ranks, 1)) :
         /\ ~In(card, hand[p])
         /\ \E r \in discard_from_hand(Current, p, card) :
               Commit(r, Call("discard_from_hand", p, p, <<card>>, NoIdx, NoIdx))
    /\ nops' = nops + 1

NextAnyCard == Next \/ DiscardAbsentCard

SpecAnyCard == Init /\ [][NextAnyCard]_vars

\* Late games: up to MaxTurns opening turns, then the calls that can lower a
\* player's steps (a discarded King, a Diamond Command, the Hoarding Penalty,
\* the empty-hand penalty) or draw, up to MaxOps of them.
OpeningTurn ==
    /\ Started /\ nops = 0 /\ turns_completed_total < MaxTurns
    /\ \E p \in Players : \E r \in execute_turn(Current, p) :
           Commit(r, Call("execute_turn", p, p, <<>>, NoIdx, NoIdx))
    /\ nops' = nops

NextLate ==
    \/ StartGame
    \/ OpeningTurn
    \/ DrawCard
    \/ DiscardFromHand
    \/ DiamondCommand
    \/ EmptyHandPenalty

SpecLate == Init /\ [][NextLate]_vars

\* Games rich in diamonds: a 28-card deck of seven ranks, shuffled so that
\* player 0 is dealt five or six diamonds, and the calls that move diamonds.
JackpotCases ==
    { [ranks |-> <<"5", "6", "7", "8", "9", "10", "J">>, num_decks |-> 1,
       order |-> << Card("5", "D"), Card("6", "D"), Card("7", "D"),
                    Card("8", "D"), Card("9", "D"), Card("5", "S"),
                    Card("5", "H"), Card("6", "H"), Card("7", "H"),
                    Card("8", "H"), Card("9", "H"), Card("10", "H"),
                    Card("10", "D"), Card("J", "D"), Card("J", "H"),
                    Card("5", "C"), Card("6", "S"), Card("6", "C"),
                    Card("7", "S"), Card("7", "C"), Card("8", "S"),
                    Card("8", "C"), Card("9", "S"), Card("9", "C"),
                    Card("10", "S"), Card("10", "C"), Card("J", "S"),
                    Card("J", "C") >>],
      [ranks |-> <<"5", "6", "7", "8", "9", "10", "J">>, num_decks |-> 1,
       order |-> << Card("5", "D"), Card("6", "D"), Card("7", "D"),
                    Card("8", "D"), Card("9", "D"), Card("10", "D"),
                    Card("J", "D"), Card("5", "H"), Card("6", "H"),
                    Card("7", "H"), Card("8", "H"), Card("9", "H"),
                    Card("10", "H"), Card("J", "H"), Card("5", "S"),
                    Card("5", "C"), Card("6", "S"), Card("6", "C"),
                    Card("7", "S"), Card("7", "C"), Card("8", "S"),
                    Card("8", "C"), Card("9", "S"), Card("9", "C"),
                    Card("10", "S"), Card("10", "C"), Card("J", "S"),
                    Card("J", "C") >>] }

InitJackpot == \E c \in JackpotCases : Loaded(c, c.order, 20)

NextJackpot ==
    \/ StartGame
    \/ DrawCard
    \/ DiscardCard
    \/ RevealDiamonds
    \/ Jackpot
    \/ ExecuteTurn

SpecJackpot == InitJackpot /\ [][NextJackpot]_vars

\* Games of the eight-card decks with victory goal 1 (tower_goal_steps of
\* the rules file): up to MaxOps of the calls that change steps, then up
\* to MaxTurns turns, by any player.
Turn ==
    /\ Started /\ turns_completed_total < MaxTurns
    /\ \E p \in Players : \E r \in execute_turn(Current, p) :
           Commit(r, Call("execute_turn", p, p, <<>>, NoIdx, NoIdx))
    /\ nops' = nops

InitGoal == \E c \in {x \in LoadCases : Len(x.order) = 8} : Loaded(c, c.order, 1)

NextGoal ==
    \/ StartGame
    \/ turns_completed_total = 0 /\ ResolveCombo
    \/ turns_completed_total = 0 /\ DiamondCommand
    \/ Turn

SpecGoal == InitGoal /\ [][NextGoal]_vars

\* ---------------------------------------------------------------- properties
\* every card of a state: all hands, the draw pile, the discard pile and
\* the cards of the public-diamond row
RECURSIVE HandsFrom(_, _)
HandsFrom(s, p) ==
    IF p = NumPlayers THEN <<>> ELSE s.hand[p] \o HandsFrom(s, p + 1)

RowCards(s) == [i \in 1 .. Len(s.public_diamonds) |-> s.public_diamonds[i].card]

AllCards(s) == HandsFrom(s, 0) \o s.draw_pile \o s.discard_pile \o RowCards(s)

\* the last call returned (it did not hang)
Returned(op) == call.op = op /\ pc = "playing"

\* C1: after any sequence of engine operations from start_game (cards to
\* discard and combo cards taken from the hand), the multiset of the cards in
\* the hands, the draw pile, the discard pile and the public row is the deck
\* the game was loaded with.
C1_Conservation ==
    BagOf(AllCards(Current)) = BagOf(create_deck(config.ranks, num_decks))

\* C2: every player's steps are at or above the floor in every state.
C2_FloorInvariant == \A p \in Players : steps[p] >= tower_floor

\* C2 witness: after round 1 a Diamond Command forced a diamond out of the
\* hand of a target at the floor; the Hoarding Penalty ran (the target drew
\* six times) and left the target at the floor.
C2_Witness ==
    /\ Returned("diamond_command")
    /\ ~is_round1(pre)
    /\ result.ret.kind = "Card" /\ is_diamond(result.ret.card)
    /\ Len(result.draws) >= 6
    /\ pre.steps[call.target] = tower_floor
    /\ steps[call.target] = tower_floor

\* the GameState and Player fields of an engine state
GameOf(s) ==
    <<s.hand, s.steps, s.player_public_diamonds, s.draw_pile, s.discard_pile,
      s.public_diamonds, s.goal_steps, s.tower_floor, s.num_decks, s.config,
      s.round_index, s.turn_index, s.turns_completed_total, s.winner>>

\* the last call left the whole state as it found it
Unchanged == GameOf(Current) = GameOf(pre)

\* the card argument of the last discard call, and its copies in a list
TheCard == call.cards[1]
Copies(seq, c) == Cardinality({i \in 1 .. Len(seq) : seq[i] = c})

\* C3: discard_from_hand with a card that is not in the player's hand changes
\* neither the hand, nor the discard pile, nor the draw pile, nor any steps.
C3_AbsentCardNoOp ==
    (Returned("discard_from_hand") /\ ~In(TheCard, pre.hand[call.player]))
        => /\ hand = pre.hand
           /\ discard_pile = pre.discard_pile
           /\ draw_pile = pre.draw_pile
           /\ steps = pre.steps

\* C4 as claimed: after discard_from_hand of a card held in exactly one copy,
\* the card is not in the hand and is in the discard pile, whatever the card
\* and the piles.
C4_DiscardedCardLeaves ==
    (Returned("discard_from_hand") /\ Copies(pre.hand[call.player], TheCard) = 1)
        => /\ ~In(TheCard, hand[call.player])
           /\ In(TheCard, discard_pile)

\* the two draws a discarded King of diamonds triggers cannot bring the card
\* back: the draw pile holds two cards and neither of its top two is the card
DrawsAvoid(s, c) ==
    /\ Len(s.draw_pile) >= 2
    /\ s.draw_pile[Len(s.draw_pile)] # c
    /\ s.draw_pile[Len(s.draw_pile) - 1] # c

\* C4 amended: the same, for a card that is not the King of diamonds, or is
\* the King of diamonds while the draw pile holds at least two cards and
\* neither of its top two equals it.
C4_DiscardedCardLeavesUnlessRedrawn ==
    (/\ Returned("discard_from_hand")
     /\ Copies(pre.hand[call.player], TheCard) = 1
     /\ (TheCard # Card(KING, DIAMONDS) \/ DrawsAvoid(pre, TheCard)))
        => /\ ~In(TheCard, hand[call.player])
           /\ In(TheCard, discard_pile)

\* C4 witness: a King held once was discarded from the hand, its trigger
\* fired, and it lies in the discard pile.
C4_Witness ==
    /\ Returned("discard_from_hand")
    /\ Copies(pre.hand[call.player], TheCard) = 1
    /\ TheCard.rank = KING /\ TheCard # Card(KING, DIAMONDS)
    /\ result.kings = <<TheCard>>
    /\ In(TheCard, discard_pile)

\* C5: draw_card with both piles empty returns None and changes nothing.
C5_DrawFromNothing ==
    (Returned("draw_card") /\ pre.draw_pile = <<>> /\ pre.discard_pile = <<>>)
        => (result.ret = RetNone /\ Unchanged)

\* C5 witness: draw_card was called with both piles empty.
C5_Witness ==
    /\ Returned("draw_card")
    /\ pre.draw_pile = <<>> /\ pre.discard_pile = <<>>
    /\ result.draws = <<NoCard>>

\* C6: draw_card with an empty draw pile and a non-empty discard pile returns
\* a card; the discard pile is then empty, the draw pile is the former
\* discard pile less the returned card, draw + discard hold one card fewer,
\* and the returned card is the last of the drawer's hand.
C6_DrawAfterReshuffle ==
    (Returned("draw_card") /\ pre.draw_pile = <<>> /\ pre.discard_pile # <<>>)
        => /\ result.ret.kind = "Card"
           /\ discard_pile = <<>>
           /\ BagOf(draw_pile \o <<result.ret.card>>) = BagOf(pre.discard_pile)
           /\ Len(draw_pile) + Len(discard_pile)
                = Len(pre.draw_pile) + Len(pre.discard_pile) - 1
           /\ hand[call.player] = Append(pre.hand[call.player], result.ret.card)

\* C6 witness: a draw reshuffled a discard pile of at least two cards.
C6_Witness ==
    /\ Returned("draw_card")
    /\ pre.draw_pile = <<>> /\ Len(pre.discard_pile) >= 2
    /\ Len(draw_pile) >= 1

\* the hand left when the listed cards are removed from it, one by one
RECURSIVE Without(_, _)
Without(seq, cards) ==
    IF cards = <<>> THEN seq
    ELSE Without(IF In(Head(cards), seq) THEN RemoveFirst(seq, Head(cards)) ELSE seq,
                 Tail(cards))

\* the cards the draws of the last call brought (None results left out)
Drawn == Filter(result.draws, Range(result.draws) \ {NoCard})

\* two black cards of one rank
TwoBlacks(cards) ==
    /\ Len(cards) = 2
    /\ cards[1].rank = cards[2].rank
    /\ is_black(cards[1]) /\ is_black(cards[2])

\* C7: resolve_combo on two black cards of one rank from the hand returns 1
\* and adds 1 step (2 and 2 for Kings); it draws nothing, fires no King
\* trigger and takes only the two played cards from the hand.
C7_TwoBlacksPayout ==
    (Returned("resolve_combo") /\ TwoBlacks(call.cards))
        => LET gain == IF call.cards[1].rank = KING THEN 2 ELSE 1
           IN  /\ result.ret = RetInt(gain)
               /\ steps = [pre.steps EXCEPT ![call.player] = @ + gain]
               /\ result.draws = <<>>
               /\ result.kings = <<>>
               /\ hand = [pre.hand EXCEPT ![call.player] = Without(@, call.cards)]
               /\ Len(hand[call.player]) = Len(pre.hand[call.player]) - 2

\* C7 witness: the two black Kings were played from the hand for 2 steps.
C7_Witness ==
    /\ Returned("resolve_combo")
    /\ TwoBlacks(call.cards) /\ call.cards[1].rank = KING
    /\ steps[call.player] = pre.steps[call.player] + 2

\* exactly the Kings of hearts, spades, clubs and diamonds, in any order
TheFourKings(cards) ==
    /\ Len(cards) = 4
    /\ Range(cards) = {Card(KING, HEARTS), Card(KING, SPADES),
                       Card(KING, CLUBS), Card(KING, DIAMONDS)}

\* C8: resolve_combo on the four Kings returns 6 and adds exactly 6 steps,
\* makes exactly 2 draws, fires no King trigger, and the four Kings leave the
\* hand for the top of the discard pile.
C8_FourKings ==
    (Returned("resolve_combo") /\ TheFourKings(call.cards))
        => /\ result.ret = RetInt(6)
           /\ steps = [pre.steps EXCEPT ![call.player] = @ + 6]
           /\ Len(result.draws) = 2
           /\ result.kings = <<>>
           /\ hand = [pre.hand EXCEPT ![call.player] = Without(@ \o Drawn, call.cards)]
           /\ Len(discard_pile) >= 4
           /\ SubSeq(discard_pile, Len(discard_pile) - 3, Len(discard_pile)) = call.cards

\* C8 witness: the four Kings were played and the first of the two draws
\* brought a card.
C8_Witness ==
    /\ Returned("resolve_combo")
    /\ TheFourKings(call.cards)
    /\ Len(result.draws) = 2 /\ result.draws[1] # NoCard

\* the lists the claim names as no combo: empty or of mixed ranks, or of one
\* rank and a single card, five or more cards, two hearts or two diamonds
NotACombo(cards) ==
    \/ cards = <<>>
    \/ \E i \in 1 .. Len(cards) : cards[i].rank # cards[1].rank
    \/ Len(cards) = 1
    \/ Len(cards) >= 5
    \/ Len(cards) = 2 /\ is_heart(cards[1]) /\ is_heart(cards[2])
    \/ Len(cards) = 2 /\ is_diamond(cards[1]) /\ is_diamond(cards[2])

\* C9: resolve_combo returns 0 and changes nothing when the cards do not
\* all share one rank, or share it but are no combo.
C9_NoComboNoChange ==
    (Returned("resolve_combo") /\ NotACombo(call.cards))
        => (result.ret = RetInt(0) /\ Unchanged)

\* C9 witness: two hearts of one rank were given to resolve_combo.
C9_Witness ==
    /\ Returned("resolve_combo")
    /\ Len(call.cards) = 2
    /\ call.cards[1].rank = call.cards[2].rank
    /\ is_heart(call.cards[1]) /\ is_heart(call.cards[2])

\* C10: diamond_command returns None and changes nothing when the active
\* player owns no diamond, in hand or in the public row.
C10_CommandWithoutDiamonds ==
    (Returned("diamond_command") /\ count_player_diamonds_total(pre, call.player) = 0)
        => (result.ret = RetNone /\ Unchanged)

\* C10 witness: diamond_command was called by a player without any diamond
\* against a target holding cards.
C10_Witness ==
    /\ Returned("diamond_command")
    /\ count_player_diamonds_total(pre, call.player) = 0
    /\ pre.hand[call.target] # <<>>

\* the public-row diamonds a player owns in a state
Owned(s, p) == get_public_diamonds_for_player(s, p)

\* C11: diamond_command by a player without a diamond in hand who owns a
\* public-row diamond takes exactly one of the player's diamonds out of the
\* row, and the target's forced discard proceeds.
C11_PaysFromPublicRow ==
    (/\ Returned("diamond_command")
     /\ count_diamonds_in_hand(pre, call.player) = 0
     /\ Owned(pre, call.player) # <<>>)
        => /\ Len(Owned(Current, call.player)) = Len(Owned(pre, call.player)) - 1
           /\ Len(public_diamonds) = Len(pre.public_diamonds) - 1
           /\ (pre.hand[call.target] # <<>> => result.ret.kind = "Card")

\* diamond_command returned a diamond it forced out of the target's hand
ForcedDiamond ==
    /\ Returned("diamond_command")
    /\ result.ret.kind = "Card"
    /\ is_diamond(result.ret.card)

\* C12 as claimed: in round 1, when the forced discard is a diamond of any
\* rank, the target draws exactly 1 card, its hand is as large as before, and
\* its steps and public diamonds are unchanged.
C12_RoundOneDiamondDrawsOne ==
    (ForcedDiamond /\ is_round1(pre))
        => /\ Len(result.draws) = 1
           /\ Len(Drawn) = 1
           /\ Len(hand[call.target]) = Len(pre.hand[call.target])
           /\ steps[call.target] = pre.steps[call.target]
           /\ Owned(Current, call.target) = Owned(pre, call.target)

\* C12 amended: the same for a diamond that is not a King; the King of
\* diamonds first triggers its two draws, so three draws are made; in both
\* cases the hand loses the card and gains the cards drawn, and the target's
\* steps and public diamonds are unchanged.
C12_RoundOneDiamondDrawsOneUnlessKing ==
    (ForcedDiamond /\ is_round1(pre))
        => /\ Len(result.draws) = IF is_king(result.ret.card) THEN 3 ELSE 1
           /\ ~is_king(result.ret.card) => Len(Drawn) = 1
           /\ Len(hand[call.target]) = Len(pre.hand[call.target]) - 1 + Len(Drawn)
           /\ steps[call.target] = pre.steps[call.target]
           /\ Owned(Current, call.target) = Owned(pre, call.target)

\* C12 witness: in round 1 a diamond that is no King was forced out while
\* the draw pile was empty; the one draw came from the reshuffled discards.
C12_Witness ==
    /\ ForcedDiamond /\ is_round1(pre)
    /\ ~is_king(result.ret.card)
    /\ pre.draw_pile = <<>>
    /\ Len(Drawn) = 1

\* the results of the last n draws of the last call
LastDraws(n) == SubSeq(result.draws, Len(result.draws) - n + 1, Len(result.draws))

\* C13: after round 1, when diamond_command returns a diamond it forced out,
\* the target owns no public diamond, its hand is exactly what the six
\* closing draws brought (every card held before has left), and it holds 6
\* cards unless the piles ran out.
C13_HoardingEmptiesTarget ==
    (ForcedDiamond /\ ~is_round1(pre))
        => /\ Owned(Current, call.target) = <<>>
           /\ Len(result.draws) >= 6
           /\ hand[call.target] = Filter(LastDraws(6), Range(LastDraws(6)) \ {NoCard})
           /\ \/ Len(hand[call.target]) = 6
              \/ /\ Len(hand[call.target]) < 6
                 /\ draw_pile = <<>> /\ discard_pile = <<>>

\* C13 witness: the Hoarding Penalty took public diamonds from a target that
\* ended with six cards.
C13_Witness ==
    /\ ForcedDiamond /\ ~is_round1(pre)
    /\ Owned(pre, call.target) # <<>>
    /\ Len(hand[call.target]) = 6

\* C14: the Hoarding Penalty that follows a forced diamond (no King) leaves
\* the target at max(tower_floor, steps - 1) whatever its hand held, after
\* exactly six draws.
C14_HoardingWithoutTriggers ==
    (ForcedDiamond /\ ~is_round1(pre) /\ ~is_king(result.ret.card))
        => /\ steps[call.target] = Max(tower_floor, pre.steps[call.target] - 1)
           /\ Len(result.draws) = 6

\* C15: jackpot_six_diamonds with fewer than 6 diamonds owned (hand and
\* public row) returns False and changes nothing; with 6 or more it returns
\* True and the player's steps rise by exactly 6.
C15_JackpotBoundary ==
    Returned("jackpot_six_diamonds")
        => IF count_player_diamonds_total(pre, call.player) < 6
           THEN result.ret = RetBool(FALSE) /\ Unchanged
           ELSE /\ result.ret = RetBool(TRUE)
                /\ steps = [pre.steps EXCEPT ![call.player] = @ + 6]

\* C15 witness: the jackpot paid a player who owned exactly six diamonds,
\* some of them in the public row.
C15_Witness ==
    /\ Returned("jackpot_six_diamonds")
    /\ count_player_diamonds_total(pre, call.player) = 6
    /\ Owned(pre, call.player) # <<>>
    /\ result.ret = RetBool(TRUE)

\* C16: when jackpot_six_diamonds returns True and cards were there to draw
\* (no draw failed and the draw pile is not exhausted), the hand holds at
\* least 6 cards that are not diamonds.
C16_RefillReachesSixNonDiamonds ==
    (/\ Returned("jackpot_six_diamonds")
     /\ result.ret = RetBool(TRUE)
     /\ NoCard \notin Range(result.draws)
     /\ draw_pile # <<>>)
        => Len(get_non_diamond_hand(Current, call.player)) >= 6

\* C17: after every execute_turn, the winner is set exactly when some player
\* is at or over the goal, and is then the first such player in id order,
\* the one check_victory returns.
C17_WinnerIsCheckVictory ==
    Returned("execute_turn") => winner = check_victory(Current)

\* C18: a winner that is set is still set after every step.
C18_WinnerNeverCleared == [][winner # NoWinner => winner' # NoWinner]_vars

\* C18 witness: a turn was executed for a player below the goal while a
\* winner was already set, and the winner is still set.
C18_Witness ==
    /\ Returned("execute_turn")
    /\ pre.winner # NoWinner
    /\ steps[call.player] < goal_steps
    /\ winner # NoWinner

\* ------------------------------------------------------------------- C19
\* The climb: two players, two standard decks, goal 20.  Player 0 (A) spends
\* each of its turns on one draw, one two-black combo without a
\* King, and the turn's end; player 1 only takes its turns.  nops counts A's
\* combo resolutions.
ClimbRanks == <<"A", "2", "3", "4", "5", "6", "7", "8", "9", "10", "J", "Q", "K">>

\* the black cards below the King, rank by rank: spade, club, spade, club
ClimbBlacks ==
    [i \in 1 .. 48 |-> Card(ClimbRanks[((i - 1) \div 4) + 1],
                            IF i % 2 = 1 THEN SPADES ELSE CLUBS)]

\* the other cards of the two decks: the black Kings, then the red cards
ClimbOthers ==
    << Card("K", "S"), Card("K", "C"), Card("K", "S"), Card("K", "C") >>
    \o [i \in 1 .. 52 |-> Card(ClimbRanks[((i - 1) \div 4) + 1],
                               IF i % 2 = 1 THEN HEARTS ELSE DIAMONDS)]

\* a shuffle that deals A the black Kings, a heart and three black aces; A's
\* first turn brings the fourth ace, and from the third turn on the deck
\* brings two black cards followed by one other card, over and over: the
\* draw of A's turn completes a pair, the end of the turn starts the next
ClimbOrder ==
    << ClimbOthers[1], ClimbOthers[2], ClimbOthers[5] >> \o SubSeq(ClimbBlacks, 1, 3)
    \o << ClimbOthers[3], ClimbOthers[4] >> \o SubSeq(ClimbOthers, 6, 9)
    \o << ClimbOthers[10], ClimbBlacks[4], ClimbOthers[11],
          ClimbOthers[12], ClimbBlacks[5], ClimbOthers[13] >>
    \o [i \in 1 .. 60 |-> IF i % 3 = 0 THEN ClimbOthers[13 + (i \div 3)]
                          ELSE ClimbBlacks[5 + i - (i \div 3)]]
    \o SubSeq(ClimbBlacks, 46, 48) \o SubSeq(ClimbOthers, 34, 56)

InitClimb ==
    Loaded([ranks |-> ClimbRanks, num_decks |-> 2], ClimbOrder, 20)

\* A's turn has come: the game has just started, or player 1 ended a turn
ClimbTurnBegins ==
    \/ call.op = "start_game"
    \/ call.op = "execute_turn" /\ call.player = 1

ClimbDraw ==
    /\ Started /\ winner = NoWinner /\ ClimbTurnBegins
    /\ \E r \in draw_card(Current, 0) :
           Commit(r, Call("draw_card", 0, 0, <<>>, NoIdx, NoIdx))
    /\ nops' = nops

ClimbCombo ==
    /\ Started /\ winner = NoWinner
    /\ call.op = "draw_card"
    /\ \E i, j \in 1 .. Len(hand[0]) :
         /\ i < j
         /\ TwoBlacks(<<hand[0][i], hand[0][j]>>)
         /\ hand[0][i].rank # KING
         /\ \E r \in resolve_combo(Current, 0, <<hand[0][i], hand[0][j]>>) :
              Commit(r, Call("resolve_combo", 0, 0, <<hand[0][i], hand[0][j]>>,
                             NoIdx, NoIdx))
    /\ nops' = nops + 1

\* the end of A's turn, when it leaves A's steps alone (no empty-hand penalty)
ClimbTurn ==
    /\ Started /\ call.op = "resolve_combo"
    /\ \E r \in execute_turn(Current, 0) :
         /\ r.steps[0] = steps[0]
         /\ Commit(r, Call("execute_turn", 0, 0, <<>>, NoIdx, NoIdx))
    /\ nops' = nops

ClimbOtherTurn ==
    /\ Started /\ winner = NoWinner
    /\ call.op = "execute_turn" /\ call.player = 0
    /\ \E r \in execute_turn(Current, 1) :
           Commit(r, Call("execute_turn", 1, 1, <<>>, NoIdx, NoIdx))
    /\ nops' = nops

NextClimb ==
    \/ StartGame
    \/ ClimbDraw
    \/ ClimbCombo
    \/ ClimbTurn
    \/ ClimbOtherTurn

SpecClimb == InitClimb /\ [][NextClimb]_vars

\* C19: in the climb A's steps are the number of its combo resolutions, no
\* winner is recorded before the 20th resolution, and the turn with the 20th
\* resolution ends with A recorded as the winner.
C19_TwentyResolutions ==
    Started =>
        /\ steps[0] = nops
        /\ nops < 20 => winner = NoWinner
        /\ (call.op = "execute_turn" /\ call.player = 0 /\ nops = 20) => winner = 0

\* C19 witness: A's turn with the 20th resolution has ended.
C19_Witness ==
    /\ call.op = "execute_turn" /\ call.player = 0
    /\ nops = 20 /\ steps[0] = 20 /\ winner = 0

\* ------------------------------------------------------------------- C20
\* main.py's game: one deck, two players, and the demo loop
\*   while turn_count < max_turns and state.winner is None:
\*       player = state.current_player(); execute_turn(state, player)
\*       if check_victory(state): return
\*       turn_count += 1
\* turn_count is turns_completed_total, which execute_turn counts.
max_turns == 3

InitMain ==
    \E c \in {x \in LoadCases : x.num_decks = 1} :
        \E order \in Rotations_of(c.order) : Loaded(c, order, 20)

MainTurn ==
    /\ Started
    /\ turns_completed_total < max_turns /\ winner = NoWinner
    /\ check_victory(Current) = NoWinner
    /\ LET player == current_player(Current)
       IN  \E r \in execute_turn(Current, player) :
               Commit(r, Call("execute_turn", player, player, <<>>, NoIdx, NoIdx))
    /\ nops' = nops

NextMain ==
    \/ StartGame
    \/ MainTurn

SpecMain == InitMain /\ [][NextMain]_vars

\* C20: when a turn of the loop has ended with no winner, the turn index
\* points at the next player in id order.
C20_TurnPassesOn ==
    (Returned("execute_turn") /\ winner = NoWinner)
        => current_player(Current) = (call.player + 1) % NumPlayers

\* ------------------------------------------------------------------- C21
\* cli.py's game: InteractiveCLI.run_game calls play_turn for the current
\* player and then state.next_player(), until check_victory names a winner.
\* play_turn for a player who draws and ends the turn (choice "0"): the
\* draw phase, then the end of the turn as cli.py writes it,
\*   turns_completed_total += 1
\*   if turns_completed_total == len(players): round_index = 2
play_turn(s, p) ==
    UNION { { LET s3 == end_of_turn_reveal_diamonds(s2, p)
                  s4 == [s3 EXCEPT !.turns_completed_total = @ + 1]
                  s5 == IF s4.turns_completed_total = NumPlayers
                        THEN [s4 EXCEPT !.round_index = 2] ELSE s4
              IN  [s5 EXCEPT !.ret = RetNone] :
              s2 \in apply_empty_hand_penalty_if_needed(s1, p) } :
            s1 \in draw_card(s, p) }

\* GameState.next_player: turn_index += 1
next_player(s) == [s EXCEPT !.turn_index = @ + 1]

\* one pass of run_game's loop
run_game_turn(s) ==
    { IF check_victory(s1) # NoWinner THEN s1 ELSE next_player(s1) :
        s1 \in play_turn(s, current_player(s)) }

InitCli ==
    \E c \in LoadCases : \E order \in Rotations_of(c.order) : Loaded(c, order, 20)

CliTurn ==
    /\ Started /\ winner = NoWinner /\ check_victory(Current) = NoWinner
    /\ turns_completed_total < MaxTurns + NumPlayers
    /\ \E r \in run_game_turn(Current) :
           Commit(r, Call("play_turn", current_player(Current),
                          current_player(Current), <<>>, NoIdx, NoIdx))
    /\ nops' = nops

NextCli ==
    \/ StartGame
    \/ CliTurn

SpecCli == InitCli /\ [][NextCli]_vars

\* C21: after start_game and any number of completed turns, the round is
\* 1 + floor(turns_completed_total / N): it goes up exactly when the count of
\* completed turns becomes a multiple of the player count.
C21_RoundFollowsTurns ==
    Started => round_index = 1 + (turns_completed_total \div NumPlayers)

\* C22: the King trigger of a discard changes only the discarder: a black
\* King sets the steps to max(tower_floor, steps - 2), the King of hearts
\* adds 2 steps, the King of diamonds makes the discarder draw exactly twice,
\* and any other card changes no steps and draws nothing.
C22_KingTrigger ==
    Returned("discard_from_hand") =>
        LET p == call.player
            c == call.cards[1]
        IN  /\ \A q \in Players \ {p} :
                   steps[q] = pre.steps[q] /\ hand[q] = pre.hand[q]
            /\ public_diamonds = pre.public_diamonds
            /\ IF c.rank = KING /\ c.suit \in {SPADES, CLUBS}
               THEN /\ steps[p] = Max(tower_floor, pre.steps[p] - 2)
                    /\ result.draws = <<>>
               ELSE IF c.rank = KING /\ c.suit = HEARTS
               THEN /\ steps[p] = pre.steps[p] + 2
                    /\ result.draws = <<>>
               ELSE IF c.rank = KING /\ c.suit = DIAMONDS
               THEN /\ steps[p] = pre.steps[p]
                    /\ Len(result.draws) = 2
               ELSE /\ steps[p] = pre.steps[p]
                    /\ result.draws = <<>>

\* C22 witness: a player with at least 2 steps discarded a black King and
\* went down by 2.
C22_Witness ==
    /\ Returned("discard_from_hand")
    /\ call.cards[1].rank = KING /\ call.cards[1].suit \in {SPADES, CLUBS}
    /\ pre.steps[call.player] >= 2
    /\ steps[call.player] = pre.steps[call.player] - 2

\* ------------------------------------------------------------------- C23
\* Games on the public row: opening turns (each ends with a reveal), then up
\* to MaxOps of the calls that bring diamonds to a hand, put them in the row,
\* change their owner or take them out.
InitRow ==
    \E c \in LoadCases \cup JackpotCases : Loaded(c, c.order, 20)

NextRow ==
    \/ StartGame
    \/ OpeningTurn
    \/ DrawCard
    \/ RevealDiamonds
    \/ DiamondSwap
    \/ DiamondCommand
    \/ Jackpot

SpecRow == InitRow /\ [][NextRow]_vars

\* C23: diamond_swap leaves the whole state as it was unless the active
\* player and the target each own a diamond of the public row.
C23_SwapNeedsBothOwners ==
    (/\ Returned("diamond_swap")
     /\ ~(Owned(pre, call.player) # <<>> /\ Owned(pre, call.target) # <<>>))
        => Unchanged

\* C23 witness: a swap asked by a player who owns a row diamond, against a
\* target who owns none, changed nothing.
C23_Witness ==
    /\ Returned("diamond_swap")
    /\ Owned(pre, call.player) # <<>> /\ Owned(pre, call.target) = <<>>
    /\ Unchanged

\* a swap between two owners changed the owners in the row
C23_SwapDone ==
    /\ Returned("diamond_swap")
    /\ Owned(pre, call.player) # <<>> /\ Owned(pre, call.target) # <<>>
    /\ public_diamonds # pre.public_diamonds

\* the diamonds of a list of cards, and its other cards, in the list's order
DiamondsIn(seq) == Filter(seq, {c \in Range(seq) : c.suit = DIAMONDS})
OthersIn(seq) == Filter(seq, {c \in Range(seq) : c.suit # DIAMONDS})

\* C24: end_of_turn_reveal_diamonds appends every diamond of the player's
\* hand to the public row, in hand order and owned by the player; the hand
\* keeps its other cards in their order, and the row's earlier entries, the
\* other hands, both piles and all steps stay as they were.
C24_RevealMovesDiamonds ==
    Returned("end_of_turn_reveal_diamonds") =>
        LET p == call.player
            ds == DiamondsIn(pre.hand[p])
        IN  /\ public_diamonds =
                   pre.public_diamonds
                     \o [i \in 1 .. Len(ds) |-> [card |-> ds[i], owner_id |-> p]]
            /\ hand = [pre.hand EXCEPT ![p] = OthersIn(@)]
            /\ DiamondsIn(hand[p]) = <<>>
            /\ draw_pile = pre.draw_pile /\ discard_pile = pre.discard_pile
            /\ steps = pre.steps

\* C24 witness: a hand with two diamonds or more and another card was
\* revealed into a row that already had an entry.
C24_Witness ==
    /\ Returned("end_of_turn_reveal_diamonds")
    /\ Len(DiamondsIn(pre.hand[call.player])) >= 2
    /\ OthersIn(pre.hand[call.player]) # <<>>
    /\ pre.public_diamonds # <<>>
    /\ Len(public_diamonds) >= Len(pre.public_diamonds) + 2

\* C25: every entry of the public row is owned by an existing player.
C25_OwnersExist ==
    \A i \in 1 .. Len(public_diamonds) :
        public_diamonds[i].owner_id \in 0 .. (NumPlayers - 1)

\* C25 witness: after a swap that changed the row, the row holds diamonds of
\* both players.
C25_Witness ==
    /\ Returned("diamond_swap")
    /\ public_diamonds # pre.public_diamonds
    /\ \A p \in Players : \E i \in 1 .. Len(public_diamonds) :
           public_diamonds[i].owner_id = p

\* the Hoarding Penalty took a player's diamonds out of the row
C25_HoardingSeen ==
    /\ Returned("diamond_command")
    /\ result.ret.kind = "Card" /\ result.ret.card.suit = DIAMONDS
    /\ pre.round_index > 1
    /\ Len(public_diamonds) < Len(pre.public_diamonds)

\* ------------------------------------------------------------------- C27
\* The classifier on its own: identify_combo is called once with any list of
\* up to MaxCards cards of two ranks (copies of a card allowed, as with
\* several decks).
ClassifyCards == {Card(r, s) : r \in {"5", KING}, s \in Suit}

CardLists == UNION {[1 .. n -> ClassifyCards] : n \in 0 .. MaxCards}

InitClassify ==
    \E c \in {x \in LoadCases : x.num_decks = 2} : Loaded(c, c.order, 20)

IdentifyCombo ==
    /\ call.op # "identify_combo"
    /\ \E cards \in CardLists :
         /\ call' = Call("identify_combo", 0, 0, cards, NoIdx, NoIdx)
         /\ result' = [ret |-> RetStr(identify_combo(cards)),
                       draws |-> <<>>, kings |-> <<>>]
    /\ pre' = Current
    /\ UNCHANGED <<game, pc, nops>>

NextClassify == IdentifyCombo

SpecClassify == InitClassify /\ [][NextClassify]_vars

\* the reference classification of a list of cards
RefCombo(cards) ==
    LET n == Len(cards)
        blacks == {i \in 1 .. n : cards[i].suit \in {SPADES, CLUBS}}
        hearts == {i \in 1 .. n : cards[i].suit = HEARTS}
        diamonds == {i \in 1 .. n : cards[i].suit = DIAMONDS}
    IN  IF n = 0 \/ \E i, j \in 1 .. n : cards[i].rank # cards[j].rank THEN "None"
        ELSE CASE n = 4 -> "four_of_kind_any_rank"
               [] n = 3 -> IF diamonds # {} THEN "three_kind_including_diamond"
                           ELSE "three_of_kind_basic"
               [] n = 2 -> IF Cardinality(blacks) = 2 THEN "two_blacks"
                           ELSE IF Cardinality(hearts) = 1 /\ Cardinality(blacks) = 1
                           THEN "heart_plus_black"
                           ELSE IF Cardinality(hearts) = 1 /\ Cardinality(diamonds) = 1
                           THEN "heart_plus_diamond"
                           ELSE IF Cardinality(diamonds) = 1 /\ Cardinality(blacks) = 1
                           THEN "diamond_plus_black"
                           ELSE "None"
               [] OTHER -> "None"

\* C27: identify_combo returns the reference classification of every list of
\* cards (None where the reference has no match).
C27_ClassifierAgrees ==
    call.op = "identify_combo" => result.ret = RetStr(RefCombo(call.cards))

\* C27 witness: two hearts of one rank were classified as no combo.
C27_Witness ==
    /\ call.op = "identify_combo"
    /\ Len(call.cards) = 2
    /\ call.cards[1].suit = HEARTS /\ call.cards[2].suit = HEARTS
    /\ call.cards[1].rank = call.cards[2].rank
    /\ result.ret = RetNone

\* the fixed payout table: steps and draw count of a combo kind
TableSteps(kind) ==
    CASE kind = "two_blacks" -> 1
      [] kind = "heart_plus_black" -> 2
      [] kind = "heart_plus_diamond" -> 1
      [] kind = "diamond_plus_black" -> 0
      [] kind = "three_kind_including_diamond" -> 1
      [] kind = "three_of_kind_basic" -> 1
      [] kind = "four_of_kind_any_rank" -> 3

TableDraw(kind) ==
    CASE kind = "two_blacks" -> 0
      [] kind = "heart_plus_black" -> 0
      [] kind = "heart_plus_diamond" -> 1
      [] kind = "diamond_plus_black" -> 1
      [] kind = "three_kind_including_diamond" -> 1
      [] kind = "three_of_kind_basic" -> 0
      [] kind = "four_of_kind_any_rank" -> 1

\* the last call resolved a combo of some kind, the Four Kings set left out
ComboResolved ==
    /\ Returned("resolve_combo")
    /\ RefCombo(call.cards) # "None"
    /\ ~TheFourKings(call.cards)

\* what the table has resolve_combo return: doubled for Kings when positive
TableReturn(cards) ==
    IF cards[1].rank = KING THEN 2 * TableSteps(RefCombo(cards))
    ELSE TableSteps(RefCombo(cards))

\* the King-of-diamonds triggers fired in the last call
DiamondKingTriggers ==
    Cardinality({i \in 1 .. Len(result.kings) : result.kings[i].suit = DIAMONDS})

\* C26 as stated: resolve_combo returns the table's steps, doubled for Kings,
\* and makes exactly the table's number of draws.
C26_TablePayout ==
    ComboResolved =>
        /\ result.ret = RetInt(TableReturn(call.cards))
        /\ Len(result.draws) = TableDraw(RefCombo(call.cards))

\* C26, amended: resolve_combo returns the table's steps, doubled for Kings,
\* and makes the table's number of draws, plus 2 for each King of diamonds
\* that its discard from the hand sends through the King trigger.
C26_TablePayoutAndTriggers ==
    ComboResolved =>
        /\ result.ret = RetInt(TableReturn(call.cards))
        /\ Len(result.draws) = TableDraw(RefCombo(call.cards)) + 2 * DiamondKingTriggers

\* C26 witness: a pair of Kings, heart and black, returned the doubled 4
\* and drew nothing.
C26_Witness ==
    /\ ComboResolved
    /\ RefCombo(call.cards) = "heart_plus_black" /\ call.cards[1].rank = KING
    /\ result.ret = RetInt(4) /\ result.draws = <<>>

\* a heart, a spade and a club of one rank
HeartAndBothBlacks(cards) ==
    /\ Len(cards) = 3
    /\ \A i \in 1 .. 3 : cards[i].rank = cards[1].rank
    /\ {cards[i].suit : i \in 1 .. 3} = {HEARTS, SPADES, CLUBS}

C28_KingsSeen ==
    /\ Returned("resolve_combo")
    /\ HeartAndBothBlacks(call.cards) /\ call.cards[1].rank = KING
    /\ result.ret = RetInt(2)

\* C29: when resolve_combo applies a combo with a discard-from-hand count of
\* 1 to cards of the hand, and the hand holds another card, one card that is
\* not a combo card leaves the hand with the combo cards, and the discard
\* pile gains the combo cards and that card, each once.
C29_OneOtherCardDiscarded ==
    (/\ Returned("resolve_combo")
     /\ RefCombo(call.cards) \in {"diamond_plus_black", "three_kind_including_diamond"}
     /\ Len(pre.hand[call.player]) > Len(call.cards))
        => LET rest == Without(pre.hand[call.player], call.cards)
           IN  \E i \in 1 .. Len(rest) :
                   /\ BagOf(hand[call.player])
                        = BagOf(RemoveFirst(rest, rest[i]) \o Drawn)
                   /\ BagOf(discard_pile)
                        = BagOf(pre.discard_pile \o call.cards \o <<rest[i]>>)

\* ------------------------------------------------------------------- C30
\* Games in which a hand runs empty: opening turns, then combos and Diamond
\* Commands, up to MaxOps of them.
NextSpend ==
    \/ StartGame
    \/ OpeningTurn
    \/ ResolveCombo
    \/ DiamondCommand

SpecSpend == Init /\ [][NextSpend]_vars

\* the diamonds a player has to pay with: in hand and owned in the row
DiamondsOf(s, p) == Len(DiamondsIn(s.hand[p])) + Len(Owned(s, p))

\* the last call was a Diamond Command, by a player with a diamond, against
\* a target with an empty hand
CommandOnEmptyHand ==
    /\ Returned("diamond_command")
    /\ pre.hand[call.target] = <<>>
    /\ DiamondsOf(pre, call.player) > 0

\* the last call spent one diamond of the active player and did nothing else
\* to steps or to the target
SpentOneDiamond ==
    /\ result.ret = RetNone
    /\ DiamondsOf(Current, call.player) = DiamondsOf(pre, call.player) - 1
    /\ Len(discard_pile) = Len(pre.discard_pile) + 1
    /\ discard_pile[Len(discard_pile)].suit = DIAMONDS
    /\ SubSeq(discard_pile, 1, Len(pre.discard_pile)) = pre.discard_pile
    /\ steps = pre.steps
    /\ hand[call.target] = pre.hand[call.target]
    /\ Owned(Current, call.target) = Owned(pre, call.target)
    /\ player_public_diamonds[call.target] = pre.player_public_diamonds[call.target]

\* C30: a Diamond Command against a target with an empty hand returns None
\* after spending exactly one diamond of the active player; steps, the
\* target's hand and the target's public diamonds stay as they were.
C30_EmptyTargetStillPays ==
    CommandOnEmptyHand => SpentOneDiamond

\* the same for an active player who holds a diamond in hand
C30_PaidFromHand ==
    (CommandOnEmptyHand /\ DiamondsIn(pre.hand[call.player]) # <<>>) => SpentOneDiamond

C30_PaidFromHandSeen ==
    CommandOnEmptyHand /\ DiamondsIn(pre.hand[call.player]) # <<>> /\ SpentOneDiamond

\* ------------------------------------------------------------------- C31
\* the last call was a Diamond Command that was paid from the hand and found
\* a card in the hand of a target other than the active player
CommandForced ==
    /\ Returned("diamond_command")
    /\ call.target # call.player
    /\ DiamondsIn(pre.hand[call.player]) # <<>>
    /\ pre.hand[call.target] # <<>>

\* the position (from 1) the command names in the target's hand, and the
\* card there
ForcedPos == IF call.card_to_discard_idx = NoIdx THEN 1 ELSE call.card_to_discard_idx + 1
ForcedCard == pre.hand[call.target][ForcedPos]

\* the steps the forced discard of a card that is no diamond leaves the
\* target with: suit effect and, for a King, the King-discard effect
ForcedSteps(c, before, floor) ==
    IF c.suit \in {SPADES, CLUBS}
    THEN Max(floor, before - (IF c.rank = KING THEN 3 ELSE 1))
    ELSE before + (IF c.rank = KING THEN 3 ELSE 1)

PaidDiamond ==
    IF call.diamond_to_pay_idx = NoIdx THEN DiamondsIn(pre.hand[call.player])[1]
    ELSE pre.hand[call.player][call.diamond_to_pay_idx + 1]

OwnedAt(row, p) == {i \in 1 .. Len(row) : row[i].owner_id = p}

\* the least number of a non-empty set of numbers
Least(S) == CHOOSE i \in S : \A j \in S : i <= j

\* both players of the last diamond_swap owned a row diamond
SwapOfOwners ==
    /\ Returned("diamond_swap")
    /\ OwnedAt(pre.public_diamonds, call.player) # {}
    /\ OwnedAt(pre.public_diamonds, call.target) # {}

\* C33: between two owners, diamond_swap gives the active player's first row
\* entry to the target and the target's first to the active player; no other
\* owner changes, and the cards and order of the row, the number each player
\* owns, the hands, the piles and the steps stay as they were.
C33_SwapFirstOfEach ==
    SwapOfOwners =>
        LET row == pre.public_diamonds
            i1 == Least(OwnedAt(row, call.player))
            i2 == Least(OwnedAt(row, call.target))
        IN  /\ Len(public_diamonds) = Len(row)
            /\ \A i \in 1 .. Len(row) :
                 /\ public_diamonds[i].card = row[i].card
                 /\ public_diamonds[i].owner_id =
                       IF i = i1 THEN call.target
                       ELSE IF i = i2 THEN call.player
                       ELSE row[i].owner_id
            /\ \A p \in Players :
                   Cardinality(OwnedAt(public_diamonds, p)) = Cardinality(OwnedAt(row, p))
            /\ hand = pre.hand /\ steps = pre.steps
            /\ draw_pile = pre.draw_pile /\ discard_pile = pre.discard_pile

\* C33 witness: a swap by a player who owned two row diamonds or more.
C33_Witness ==
    /\ SwapOfOwners
    /\ Cardinality(OwnedAt(pre.public_diamonds, call.player)) >= 2
    /\ public_diamonds # pre.public_diamonds

\* the last call was a jackpot that paid
JackpotPaid == Returned("jackpot_six_diamonds") /\ result.ret = RetBool(TRUE)

\* the diamonds of the player's hand the jackpot takes: the first six
JackpotFromHand ==
    LET d == DiamondsIn(pre.hand[call.player])
    IN  SubSeq(d, 1, IF Len(d) < 6 THEN Len(d) ELSE 6)

\* the entries of the row the jackpot takes: the player's first ones, as many
\* as the hand left missing from six
JackpotFromRow ==
    LET o == Owned(pre, call.player)
        n == 6 - Len(JackpotFromHand)
    IN  SubSeq(o, 1, IF Len(o) < n THEN Len(o) ELSE n)

\* a row less the given entries, each taken out at its first place
RECURSIVE RowLess(_, _)
RowLess(row, entries) ==
    IF entries = <<>> THEN row
    ELSE RowLess(RemoveFirst(row, Head(entries)), Tail(entries))

\* C34: a jackpot that pays takes exactly 6 of the player's diamonds: those of
\* the hand first, in hand order, and only when the hand holds fewer than 6,
\* the player's row diamonds in row order to complete 6.  They reach the
\* discard pile in that order (the piles are compared when the refill did not
\* reshuffle); the other players' row diamonds and the player's diamonds
\* beyond the sixth stay where they were.
C34_JackpotTakesSix ==
    JackpotPaid =>
        LET p == call.player
            moved == JackpotFromHand \o [i \in 1 .. Len(JackpotFromRow) |-> JackpotFromRow[i].card]
        IN  /\ Len(moved) = 6
            /\ public_diamonds = RowLess(pre.public_diamonds, JackpotFromRow)
            /\ hand[p] = Without(pre.hand[p], JackpotFromHand) \o Drawn
            /\ \A q \in Players \ {p} : hand[q] = pre.hand[q]
            /\ Len(pre.draw_pile) >= Len(result.draws)
                   => discard_pile = pre.discard_pile \o moved

\* C34 witness: the jackpot took diamonds of the hand and of the row, and left
\* one of the player's row diamonds in the row.
C34_Witness ==
    /\ JackpotPaid
    /\ JackpotFromHand # <<>>
    /\ JackpotFromRow # <<>>
    /\ Owned(Current, call.player) # <<>>

\* C35: apply_empty_hand_penalty_if_needed, for a hand without a card that is
\* not a diamond (empty or diamonds only), sets the player's steps to
\* max(tower_floor, steps - 1) and makes exactly 6 draws; for any other hand
\* it leaves the state as it was.
C35_EmptyHandPenalty ==
    Returned("apply_empty_hand_penalty_if_needed") =>
        IF OthersIn(pre.hand[call.player]) = <<>>
        THEN /\ steps = [pre.steps EXCEPT
                           ![call.player] = Max(tower_floor, pre.steps[call.player] - 1)]
             /\ Len(result.draws) = 6
        ELSE Unchanged /\ result.draws = <<>>

\* C35 witness: the penalty fell on a hand of diamonds only, above the floor.
C35_Witness ==
    /\ Returned("apply_empty_hand_penalty_if_needed")
    /\ pre.hand[call.player] # <<>>
    /\ OthersIn(pre.hand[call.player]) = <<>>
    /\ Len(result.draws) = 6
    /\ steps[call.player] = pre.steps[call.player] - 1

\* the turn's mandatory draw left the hand without a card that is not a diamond
TurnMetEmptyHand ==
    /\ OthersIn(pre.hand[call.player]) = <<>>
    /\ result.draws[1] = NoCard \/ result.draws[1].suit = DIAMONDS

\* C36: execute_turn makes one mandatory draw, the six draws of the empty-hand
\* penalty when the hand then holds no card that is not a diamond, and the
\* reveal; on return turns_completed_total has grown by exactly 1 and the
\* acting player's hand holds no diamond.
C36_TurnEndsWithoutDiamonds ==
    Returned("execute_turn") =>
        /\ turns_completed_total = pre.turns_completed_total + 1
        /\ DiamondsIn(hand[call.player]) = <<>>
        /\ Len(result.draws) = IF TurnMetEmptyHand THEN 7 ELSE 1

\* C36 witness: a turn whose penalty draws brought a diamond, and which ended
\* with that diamond in the row.
C36_Witness ==
    /\ Returned("execute_turn")
    /\ Len(result.draws) = 7
    /\ DiamondsIn(Filter(LastDraws(6), Range(LastDraws(6)) \ {NoCard})) # <<>>
    /\ DiamondsIn(hand[call.player]) = <<>>
    /\ Len(Owned(Current, call.player)) > Len(Owned(pre, call.player))

\* ------------------------------------------------------------------- C37
\* Games of the eight-card deck of ranks 5 and K in which the cards end up in
\* the hands: player 0 is dealt both diamonds and four other cards, player 1
\* the last two cards.  After the opening turns a player without a diamond
\* hands its cards to the other one, one at a time through the discard pile,
\* and a player holding both diamonds hands the King of diamonds to a player
\* left without a card; then come the Diamond Commands.
HoardOthers ==
    << Card("5", "S"), Card("5", "C"), Card("5", "H"),
       Card("K", "S"), Card("K", "C"), Card("K", "H") >>

HoardCases ==
    { [ranks |-> <<"5", "K">>, num_decks |-> 1,
       order |-> << Card("5", "D"), Card("K", "D") >>
                   \o Without(HoardOthers, <<HoardOthers[x[1]], HoardOthers[x[2]]>>)
                   \o <<HoardOthers[x[1]], HoardOthers[x[2]]>>] :
        x \in {y \in (1 .. 6) \X (1 .. 6) : y[1] # y[2]} }

InitHoard == \E c \in HoardCases : Loaded(c, c.order, 20)

\* discard_card of a hand card while both piles are empty, after round 1
GiveCard ==
    /\ Started /\ nops = 0 /\ ~is_round1(Current)
    /\ draw_pile = <<>> /\ discard_pile = <<>>
    /\ \E p \in Players : \E q \in Players \ {p} : \E card \in Range(hand[p]) :
         /\ \/ /\ DiamondsIn(hand[p]) = <<>>
               /\ DiamondsIn(hand[q]) # <<>>
               /\ card = hand[p][1]
            \/ /\ hand[q] = <<>>
               /\ Len(DiamondsIn(hand[p])) >= 2
               /\ card = Card(KING, DIAMONDS)
         /\ Commit(discard_card(Current, p, card),
                   Call("discard_card", p, p, <<card>>, NoIdx, NoIdx))
    /\ nops' = nops

\* draw_card of the one card of the discard pile, by the other player
TakeCard ==
    /\ Started /\ nops = 0 /\ call.op = "discard_card"
    /\ draw_pile = <<>> /\ Len(discard_pile) = 1
    /\ \E p \in Players \ {call.player} : \E r \in draw_card(Current, p) :
           Commit(r, Call("draw_card", p, p, <<>>, NoIdx, NoIdx))
    /\ nops' = nops

NextHoard ==
    \/ StartGame
    \/ OpeningTurn
    \/ GiveCard
    \/ TakeCard
    \/ DiamondCommand

SpecHoard == InitHoard /\ [][NextHoard]_vars

\* C37: every call returns: the loop of apply_hoarding_penalty that discards
\* the player's hand reaches an empty hand, so that no call of
\* apply_hoarding_penalty or diamond_command is left running for ever.
C37_HoardingLoopEnds == pc # "hung"

\* a Diamond Command against a player holding the King of diamonds alone,
\* with both piles empty, was left running
C37_KingComesBack ==
    /\ pc = "hung"
    /\ call.op = "diamond_command"
    /\ pre.hand[call.target] = <<Card(KING, DIAMONDS)>>
    /\ pre.draw_pile = <<>> /\ pre.discard_pile = <<>>


\* ------------------------------------------------------------------- C38
\* gui.py's game: new_game loads and starts the game; a turn is a click on
\* "start turn" (start_turn), then on "end turn" (end_turn), then, when the
\* hand holds diamonds, the choice of the diamonds to reveal and a click on
\* "confirm" (confirm_reveal_diamonds).

\* the cards at the chosen positions of a hand, highest position first
RECURSIVE PoppedCards(_, _)
PoppedCards(cards, sel) ==
    IF sel = {} THEN <<>>
    ELSE LET i == CHOOSE k \in sel : \A j \in sel : j <= k
         IN  <<cards[i]>> \o PoppedCards(cards, sel \ {i})

\* for card in diamonds_to_reveal: public_diamonds.append(PublicDiamond(card, id))
RECURSIVE append_public_each(_, _, _)
append_public_each(s, p, cards) ==
    IF cards = <<>> THEN s
    ELSE append_public_each(
             [s EXCEPT !.public_diamonds = Append(@, PublicDiamond(Head(cards), p))],
             p, Tail(cards))

\* TowerClashGUI.start_turn: draw_card for the current player
gui_start_turn(s) == draw_card(s, current_player(s))

\* TowerClashGUI.confirm_reveal_diamonds with the positions selected in the
\* hand, for a game without a winner: after round 1 (round_index > 1) the
\* only answer that lets the turn go on clears the selection; the selected
\* cards are popped from the highest position down and appended to the row;
\* then next_player() and turns_completed_total += 1.  round_index is not
\* touched.
gui_confirm_reveal_diamonds(s, selected) ==
    LET p == current_player(s)
        sel == IF s.round_index > 1 THEN {} ELSE selected
        kept == {i \in 1 .. Len(s.hand[p]) : i \notin sel}
        s1 == [s EXCEPT !.hand[p] = [i \in 1 .. Cardinality(kept) |->
                           s.hand[p][CHOOSE k \in kept :
                               Cardinality({j \in kept : j <= k}) = i]]]
        s2 == append_public_each(s1, p, PoppedCards(s.hand[p], sel))
        s3 == next_player(s2)
    IN  [s3 EXCEPT !.turns_completed_total = @ + 1, !.ret = RetNone]

\* TowerClashGUI.end_turn: the empty-hand penalty, then the reveal phase, which
\* a hand without diamonds leaves at once through confirm_reveal_diamonds
gui_end_turn(s) ==
    { IF DiamondsIn(s1.hand[current_player(s)]) = <<>>
      THEN gui_confirm_reveal_diamonds(s1, {})
      ELSE [s1 EXCEPT !.ret = RetNone] :
        s1 \in apply_empty_hand_penalty_if_needed(s, current_player(s)) }

\* new_game: load_game("game.yaml", ["Alice", "Bob"], num_decks=1)
InitGui ==
    \E c \in {x \in LoadCases : x.num_decks = 1} : \E order \in Rotations_of(c.order) : Loaded(c, order, 20)

GuiStartTurn ==
    /\ Started /\ check_victory(Current) = NoWinner
    /\ call.op \in {"start_game", "confirm_reveal_diamonds"}
    /\ turns_completed_total < MaxTurns + NumPlayers
    /\ \E r \in gui_start_turn(Current) :
           Commit(r, Call("start_turn", current_player(Current),
                          current_player(Current), <<>>, NoIdx, NoIdx))
    /\ nops' = nops

GuiEndTurn ==
    /\ Started /\ check_victory(Current) = NoWinner
    /\ call.op = "start_turn"
    /\ \E r \in gui_end_turn(Current) :
           Commit(r, Call(IF r.turns_completed_total = turns_completed_total
                          THEN "end_turn" ELSE "confirm_reveal_diamonds",
                          current_player(Current), current_player(Current),
                          <<>>, NoIdx, NoIdx))
    /\ nops' = nops

GuiConfirmReveal ==
    /\ Started /\ check_victory(Current) = NoWinner
    /\ call.op = "end_turn"
    /\ LET p == current_player(Current)
       IN  \E selected \in SUBSET {i \in 1 .. Len(hand[p]) : is_diamond(hand[p][i])} :
               Commit(gui_confirm_reveal_diamonds(Current, selected),
                      Call("confirm_reveal_diamonds", p, p, <<>>, NoIdx, NoIdx))
    /\ nops' = nops

NextGui ==
    \/ StartGame
    \/ GuiStartTurn
    \/ GuiEndTurn
    \/ GuiConfirmReveal

SpecGui == InitGui /\ [][NextGui]_vars

\* C38: in every state of a started game, is_round1() (turns_completed_total
\* below the number of players) is true exactly when round_index is 1.
C38_RoundIndicatorsAgree ==
    Started => ((turns_completed_total < NumPlayers) <=> (round_index = 1))

\* ------------------------------------------------------------------- C39
\* Player.count_total_diamonds: the hand's diamonds and the length of the
\* player's own public_diamonds list
count_total_diamonds(s, p) ==
    count_diamonds_in_hand(s, p) + Len(s.player_public_diamonds[p])

\* C39: in every state reached through engine operations, for every player,
\* Player.count_total_diamonds() equals count_player_diamonds_total(state,
\* player).
C39_DiamondCountsAgree ==
    \A p \in Players :
        count_total_diamonds(Current, p) = count_player_diamonds_total(Current, p)

\* ------------------------------------------------------------------- C40
\* C40: whenever resolve_combo returns 0, the game state is as it was before
\* the call: no card was moved or drawn.
C40_ZeroMeansNoCombo ==
    (Returned("resolve_combo") /\ result.ret = RetInt(0)) => Unchanged
====
